---- MODULE Spec2Model ----
(***************************************************************************)
(* Delegated-credential lifecycle of gdocs-mcp.                            *)
(*                                                                         *)
(*   Spec      one DriveClient (src/src/drive-client.ts) serving two       *)
(*             overlapping calls of request: getAccessToken and the        *)
(*             retry after a 401.                                          *)
(*   GrantSpec one session whose grant props are refreshed by the          *)
(*             framework (tokenExchangeCallback, refreshGoogleAccessToken) *)
(*             while its agent is started from them and serves requests.   *)
(*   AuthSpec  the Google OAuth handshake (handleAuthorize and             *)
(*             handleCallback) over the pending-state KV store.            *)
(*   RotSpec, RaceSpec  Spec with a token endpoint that rotates refresh    *)
(*             tokens: one that rejects a superseded token, and one that   *)
(*             is its own state machine and grants a reuse grace.          *)
(*   TwoSpec   two sessions, each with its own DriveClient.                *)
(*   ReinitSpec  one session whose agent is started again from its props.  *)
(*   RenewSpec the handshake followed by the framework's refresh of the    *)
(*             grant it made.                                              *)
(*   FormatSpec, MultipartSpec  the helpers formatDriveError               *)
(*             (src/unnamed/part_002) and DriveClient.buildMultipart.      *)
(*   LiveSpec  one call of request whose fetches are always answered.      *)
(*   TtlSpec   the access-token TTL refreshGoogleAccessToken returns.      *)
(*   ExchangeSpec  the framework's token exchanges on one session, with    *)
(*             2xx answers that lack a field.                              *)
(*   ToolSpec  one call of a tool handler (src/unnamed/part_001,           *)
(*             src/src/tools).                                             *)
(*                                                                         *)
(* Every await of the source is a suspension point: an operation is cut    *)
(* into one action per run of synchronous code between two awaits.         *)
(* Time is Date.now() in milliseconds.  An optional JSON field or an       *)
(* optional property is a sequence: <<>> when it is absent, <<v>> when it  *)
(* carries the value v.                                                    *)
(***************************************************************************)
EXTENDS Integers, Sequences, FiniteSets, TLC

VARIABLES
    now,                 \* Date.now(), in ms
    props,               \* props[s]: the grant props the framework delivers to session s
    currentAccessToken,  \* DriveClient.currentAccessToken of session s
    tokenExpiry,         \* DriveClient.tokenExpiry of session s
    refreshToken,        \* DriveClient.config.refreshToken of session s
    call,                \* call[p]: one invocation of DriveClient.request
    exchange,            \* exchange[s]: one invocation of tokenExchangeCallback on props[s]
    kv,                  \* OAUTH_KV: google_oauth_state:<key> -> expiry of the entry
    issued,              \* the state keys handleAuthorize has put in a redirect
    cb,                  \* cb[q]: one invocation of handleCallback
    grants,              \* the completeAuthorization calls made, in order
    endpoint,            \* the provider's token endpoint: the refresh tokens it has issued
    tool                 \* one invocation of a helper or of a tool handler

vars == <<now, props, currentAccessToken, tokenExpiry, refreshToken, call,
          exchange, kv, issued, cb, grants, endpoint, tool>>

clientVars == <<props, currentAccessToken, tokenExpiry, refreshToken, call, exchange>>
authVars == <<kv, issued, cb, grants>>

----------------------------------------------------------------------------
(* Bounds of the model *)

MaxTicks == 1
TickMs == 60 * 1000
MaxNow == MaxTicks * TickMs

Sessions == {"s1", "s2"}
Procs == {"p1", "p2"}

None == <<>>
Some(v) == <<v>>
Get(o) == o[1]

AccessTokens == {"", "AT1", "AT2"}
RefreshTokens == {"", "RT1", "RT2"}
ExpiresIn == {30, 3600}

\* The token endpoint before it has rotated any refresh token, and the tool
\* layer before any helper has run.
IdleEndpoint == [issued |-> 1, answer |-> [p \in Procs |-> 0]]
IdleTool == [op |-> "idle"]

\* HTTP statuses the remote API and the token endpoint answer with; 0 stands
\* for a fetch that rejects (a network-level failure).
ApiStatuses == {200, 401, 403, 500}
NetworkFailure == 0

Ok(status) == status >= 200 /\ status <= 299

----------------------------------------------------------------------------
(* The token endpoint's answers to a refresh_token grant *)

TokenOk ==
    [status : {200}, body : {""},
     access_token : {Some(t) : t \in AccessTokens},
     expires_in : {Some(e) : e \in ExpiresIn},
     refresh_token : {None} \cup {Some(r) : r \in RefreshTokens}]

TokenFail ==
    [status : {400}, body : {"invalid_grant", "invalid_request"},
     access_token : {None}, expires_in : {None}, refresh_token : {None}]
    \cup [status : {500, NetworkFailure}, body : {""},
          access_token : {None}, expires_in : {None}, refresh_token : {None}]

TokenResponses == TokenOk \cup TokenFail

----------------------------------------------------------------------------
(* DriveApiError and the outcomes of request *)

DriveApiError(status, message) ==
    [kind |-> "DriveApiError", status |-> status, message |-> message]

NetworkError == [kind |-> "TypeError", status |-> NetworkFailure, message |-> "fetch failed"]

Returned(status) == [kind |-> "response", status |-> status, message |-> ""]

Pending == [kind |-> "pending", status |-> 0, message |-> ""]

ErrNoRefreshToken == DriveApiError(401, "Access token expired and no refresh token available")
ErrCredentialRevoked == DriveApiError(401, "Google refresh token is invalid or revoked")
ErrRefreshFailed(status) == DriveApiError(status, "Token refresh failed")
ErrRemoteRequestFailed(status) == DriveApiError(status, "remote")

SafetyMargin == 60

----------------------------------------------------------------------------
(* GDriveMCP.init and the DriveClient constructor *)

InitProps ==
    [accessToken : {"AT1"}, refreshToken : {"", "RT1"},
     expiresAt : {TickMs}, hasGoogleCredentials : BOOLEAN]

\* The props of a session no operation of the specification at hand acts on.
DefaultProps ==
    [accessToken |-> "AT1", refreshToken |-> "RT1", expiresAt |-> TickMs,
     hasGoogleCredentials |-> FALSE]

\* new DriveClient(config): expiresAt ?? 0
ConstructorExpiry(expiresAt) == IF expiresAt = None THEN 0 ELSE Get(expiresAt)

\* The config GDriveMCP.init hands to the constructor.
ConfigOf(p) ==
    [accessToken |-> p.accessToken, refreshToken |-> p.refreshToken,
     expiresAt |-> Some(p.expiresAt)]

\* data is Some(data.refresh_token) of the answer the call is using; sent is
\* the refresh_token parameter of the exchange in flight (line 51)
IdleCall ==
    [pc |-> "idle", session |-> "s1", attempt |-> 0, token |-> "", data |-> None,
     sent |-> "",
     apiCalls |-> 0, refreshCalls |-> 0, status1 |-> None, status2 |-> None,
     entryExpired |-> FALSE, entryHasAccessToken |-> FALSE, result |-> Pending]

\* data is Some(data.refresh_token) of the answer the invocation has taken
IdleExchange == [pc |-> "idle", data |-> None, result |-> "none", accessTokenTTL |-> 0]

----------------------------------------------------------------------------
(* DriveClient.getAccessToken *)

\* line 34 without its forceRefresh test
TokenIsCurrent_IgnoresForce(s, forceRefresh) ==
    currentAccessToken[s] # "" /\ now < tokenExpiry[s]

\* line 34 with the comparison turned round
TokenIsCurrent_Flipped(s, forceRefresh) ==
    ~forceRefresh /\ currentAccessToken[s] # "" /\ now > tokenExpiry[s]

\* line 34: the stored token is returned without a network call
TokenIsCurrent(s, forceRefresh) ==
    ~forceRefresh /\ currentAccessToken[s] # "" /\ now < tokenExpiry[s]

\* line 80 without the 60 s margin
RefreshedExpiry_NoMargin(t, expires_in) == t + expires_in * 1000

\* line 80 left out: the expiry the constructor gives a config without one
RefreshedExpiry_Unset(t, expires_in) == 0

\* line 80: tokenExpiry after a refresh that completes at time t
RefreshedExpiry(t, expires_in) == t + (expires_in - SafetyMargin) * 1000

\* lines 76-78 without the test: the field is stored even when it is absent
RotatedRefreshToken_Unconditional(old, data) ==
    IF data.refresh_token # None THEN Get(data.refresh_token) ELSE ""

\* lines 76-78: the refresh token is replaced only by a truthy refresh_token
RotatedRefreshToken(old, data) ==
    IF data.refresh_token # None /\ Get(data.refresh_token) # ""
    THEN Get(data.refresh_token) ELSE old

\* line 58 without the test of the body: every 400 is taken for a revoked grant
RefreshError_Any400(r) ==
    IF r.status = 400 THEN ErrCredentialRevoked ELSE ErrRefreshFailed(r.status)

\* lines 56-68: the error thrown for a non-2xx answer of the token endpoint
RefreshError(r) ==
    IF r.status = 400 /\ r.body = "invalid_grant"
    THEN ErrCredentialRevoked ELSE ErrRefreshFailed(r.status)

\* lines 33-54 without lines 38-43: the exchange is sent with whatever refresh
\* token is stored
BeginGetAccessToken_Unchecked(c, s, forceRefresh) ==
    IF TokenIsCurrent(s, forceRefresh)
    THEN [c EXCEPT !.pc = "request", !.token = currentAccessToken[s],
                   !.apiCalls = @ + 1]
    ELSE [c EXCEPT !.pc = "refresh", !.sent = refreshToken[s],
                   !.refreshCalls = @ + 1]

\* lines 33-54 of a DriveClient shared by all sessions: the fields read are
\* those of session s1, whichever session calls
BeginGetAccessToken_SharedClient(c, s, forceRefresh) ==
    IF TokenIsCurrent("s1", forceRefresh)
    THEN [c EXCEPT !.pc = "request", !.token = currentAccessToken["s1"],
                   !.apiCalls = @ + 1]
    ELSE IF refreshToken["s1"] = ""
    THEN [c EXCEPT !.pc = "done", !.result = ErrNoRefreshToken]
    ELSE [c EXCEPT !.pc = "refresh", !.sent = refreshToken["s1"],
                   !.refreshCalls = @ + 1]

\* lines 33-54 inside request: getAccessToken up to its first await, and
\* makeRequest when it returns at once.  c is the caller's record.
BeginGetAccessToken(c, s, forceRefresh) ==
    IF TokenIsCurrent(s, forceRefresh)
    THEN [c EXCEPT !.pc = "request", !.token = currentAccessToken[s],
                   !.apiCalls = @ + 1]
    ELSE IF refreshToken[s] = ""
    THEN [c EXCEPT !.pc = "done", !.result = ErrNoRefreshToken]
    ELSE [c EXCEPT !.pc = "refresh", !.sent = refreshToken[s],
                   !.refreshCalls = @ + 1]

----------------------------------------------------------------------------
(* DriveClient.request *)

\* line 98 inside a loop: every 401 is retried
ShouldRetry_Every401(status, attempt) == status = 401

\* line 98 taking 403 for an authentication failure as well
ShouldRetry_Also403(status, attempt) == status \in {401, 403} /\ attempt = 1

\* line 98: only the first attempt is retried, and only on a 401
ShouldRetry(status, attempt) == status = 401 /\ attempt = 1

\* line 94: request is called on the client of session s
Request(p, s) ==
    /\ call[p].pc = "idle"
    /\ call' = [call EXCEPT ![p] =
           BeginGetAccessToken(
               [IdleCall EXCEPT !.session = s, !.attempt = 1,
                                !.entryExpired = (now >= tokenExpiry[s]),
                                !.entryHasAccessToken = (currentAccessToken[s] # "")],
               s, FALSE)]
    /\ UNCHANGED <<now, props, currentAccessToken, tokenExpiry, refreshToken,
                   exchange, authVars, endpoint, tool>>

\* lines 75-80 split by a suspension point after line 75: the access token
\* is stored while the refresh token and the expiry still wait
RefreshResponse_TokenFirst(p, r) ==
    LET c == call[p]
        s == c.session
    IN  /\ c.pc = "refresh"
        /\ IF r.status = NetworkFailure
           THEN /\ call' = [call EXCEPT ![p] =
                       [c EXCEPT !.pc = "done", !.sent = "", !.result = NetworkError]]
                /\ UNCHANGED <<currentAccessToken, tokenExpiry, refreshToken>>
           ELSE IF ~Ok(r.status)
           THEN /\ call' = [call EXCEPT ![p] =
                       [c EXCEPT !.pc = "done", !.sent = "", !.result = RefreshError(r)]]
                /\ UNCHANGED <<currentAccessToken, tokenExpiry, refreshToken>>
           ELSE /\ currentAccessToken' = [currentAccessToken EXCEPT ![s] = Get(r.access_token)]
                /\ UNCHANGED <<tokenExpiry, refreshToken>>
                /\ call' = [call EXCEPT ![p] =
                       [c EXCEPT !.pc = "request", !.token = Get(r.access_token),
                                 !.data = Some(r.refresh_token), !.sent = "",
                                 !.apiCalls = @ + 1]]
        /\ UNCHANGED <<now, props, exchange, authVars, tool>>

\* lines 75-81 returning the token the client held before line 75
RefreshResponse_ReturnsOld(p, r) ==
    LET c == call[p]
        s == c.session
    IN  /\ c.pc = "refresh"
        /\ IF r.status = NetworkFailure
           THEN /\ call' = [call EXCEPT ![p] =
                       [c EXCEPT !.pc = "done", !.sent = "", !.result = NetworkError]]
                /\ UNCHANGED <<currentAccessToken, tokenExpiry, refreshToken>>
           ELSE IF ~Ok(r.status)
           THEN /\ call' = [call EXCEPT ![p] =
                       [c EXCEPT !.pc = "done", !.sent = "", !.result = RefreshError(r)]]
                /\ UNCHANGED <<currentAccessToken, tokenExpiry, refreshToken>>
           ELSE /\ currentAccessToken' = [currentAccessToken EXCEPT ![s] = Get(r.access_token)]
                /\ refreshToken' = [refreshToken EXCEPT ![s] = RotatedRefreshToken(@, r)]
                /\ tokenExpiry' = [tokenExpiry EXCEPT ![s] = RefreshedExpiry(now, Get(r.expires_in))]
                /\ call' = [call EXCEPT ![p] =
                       [c EXCEPT !.pc = "request", !.token = currentAccessToken[s],
                                 !.data = Some(r.refresh_token), !.sent = "",
                                 !.apiCalls = @ + 1]]
        /\ UNCHANGED <<now, props, exchange, authVars, tool>>

\* lines 56-68 with the throw caught by request: after a rejected exchange
\* the request is sent with the token the client holds
RefreshResponse_FallsBack(p, r) ==
    LET c == call[p]
        s == c.session
    IN  /\ c.pc = "refresh"
        /\ IF r.status = NetworkFailure
           THEN /\ call' = [call EXCEPT ![p] =
                       [c EXCEPT !.pc = "done", !.sent = "", !.result = NetworkError]]
                /\ UNCHANGED <<currentAccessToken, tokenExpiry, refreshToken>>
           ELSE IF ~Ok(r.status)
           THEN /\ call' = [call EXCEPT ![p] =
                       [c EXCEPT !.pc = "request", !.token = currentAccessToken[s],
                                 !.sent = "", !.apiCalls = @ + 1]]
                /\ UNCHANGED <<currentAccessToken, tokenExpiry, refreshToken>>
           ELSE /\ currentAccessToken' = [currentAccessToken EXCEPT ![s] = Get(r.access_token)]
                /\ refreshToken' = [refreshToken EXCEPT ![s] = RotatedRefreshToken(@, r)]
                /\ tokenExpiry' = [tokenExpiry EXCEPT ![s] = RefreshedExpiry(now, Get(r.expires_in))]
                /\ call' = [call EXCEPT ![p] =
                       [c EXCEPT !.pc = "request", !.token = Get(r.access_token),
                                 !.data = Some(r.refresh_token), !.sent = "",
                                 !.apiCalls = @ + 1]]
        /\ UNCHANGED <<now, props, exchange, authVars, tool>>

\* lines 45-81, then line 95 or 100: the token endpoint answers r
RefreshResponse(p, r) ==
    LET c == call[p]
        s == c.session
    IN  /\ c.pc = "refresh"
        /\ IF r.status = NetworkFailure
           THEN /\ call' = [call EXCEPT ![p] =
                       [c EXCEPT !.pc = "done", !.sent = "", !.result = NetworkError]]
                /\ UNCHANGED <<currentAccessToken, tokenExpiry, refreshToken>>
           ELSE IF ~Ok(r.status)
           THEN /\ call' = [call EXCEPT ![p] =
                       [c EXCEPT !.pc = "done", !.sent = "", !.result = RefreshError(r)]]
                /\ UNCHANGED <<currentAccessToken, tokenExpiry, refreshToken>>
           ELSE /\ currentAccessToken' = [currentAccessToken EXCEPT ![s] = Get(r.access_token)]
                /\ refreshToken' = [refreshToken EXCEPT ![s] = RotatedRefreshToken(@, r)]
                /\ tokenExpiry' = [tokenExpiry EXCEPT ![s] = RefreshedExpiry(now, Get(r.expires_in))]
                /\ call' = [call EXCEPT ![p] =
                       [c EXCEPT !.pc = "request", !.token = Get(r.access_token),
                                 !.data = Some(r.refresh_token), !.sent = "",
                                 !.apiCalls = @ + 1]]
        /\ UNCHANGED <<now, props, exchange, authVars, tool>>

\* lines 95-115 with a rejected fetch of the first attempt taken for a 401
ApiResponse_RetriesNetworkFailure(p, status) ==
    LET c == call[p]
        d == IF c.attempt = 1
             THEN [c EXCEPT !.status1 = Some(status), !.token = "", !.data = None]
             ELSE [c EXCEPT !.status2 = Some(status), !.token = "", !.data = None]
    IN  /\ c.pc = "request"
        /\ call' = [call EXCEPT ![p] =
               IF status = NetworkFailure /\ c.attempt = 2
               THEN [d EXCEPT !.pc = "done", !.result = NetworkError]
               ELSE IF status = NetworkFailure \/ ShouldRetry(status, c.attempt)
               THEN BeginGetAccessToken([d EXCEPT !.attempt = 2], c.session, TRUE)
               ELSE IF ~Ok(status)
               THEN [d EXCEPT !.pc = "done", !.result = ErrRemoteRequestFailed(status)]
               ELSE [d EXCEPT !.pc = "done", !.result = Returned(status)]]
        /\ UNCHANGED <<now, props, currentAccessToken, tokenExpiry, refreshToken,
                       exchange, authVars, endpoint, tool>>

\* lines 95-115 with the stored access token dropped when the API answers 401
ApiResponse_DropsTokenOn401(p, status) ==
    LET c == call[p]
        d == IF c.attempt = 1
             THEN [c EXCEPT !.status1 = Some(status), !.token = "", !.data = None]
             ELSE [c EXCEPT !.status2 = Some(status), !.token = "", !.data = None]
    IN  /\ c.pc = "request"
        /\ call' = [call EXCEPT ![p] =
               IF status = NetworkFailure
               THEN [d EXCEPT !.pc = "done", !.result = NetworkError]
               ELSE IF ShouldRetry(status, c.attempt)
               THEN BeginGetAccessToken([d EXCEPT !.attempt = 2], c.session, TRUE)
               ELSE IF ~Ok(status)
               THEN [d EXCEPT !.pc = "done", !.result = ErrRemoteRequestFailed(status)]
               ELSE [d EXCEPT !.pc = "done", !.result = Returned(status)]]
        /\ currentAccessToken' =
               IF status = 401
               THEN [currentAccessToken EXCEPT ![c.session] = ""]
               ELSE currentAccessToken
        /\ UNCHANGED <<now, props, tokenExpiry, refreshToken, exchange, authVars, endpoint, tool>>

\* lines 95-115: the remote API answers the attempt in flight with status
ApiResponse(p, status) ==
    LET c == call[p]
        d == IF c.attempt = 1
             THEN [c EXCEPT !.status1 = Some(status), !.token = "", !.data = None]
             ELSE [c EXCEPT !.status2 = Some(status), !.token = "", !.data = None]
    IN  /\ c.pc = "request"
        /\ call' = [call EXCEPT ![p] =
               IF status = NetworkFailure
               THEN [d EXCEPT !.pc = "done", !.result = NetworkError]
               ELSE IF ShouldRetry(status, c.attempt)
               THEN BeginGetAccessToken([d EXCEPT !.attempt = 2], c.session, TRUE)
               ELSE IF ~Ok(status)
               THEN [d EXCEPT !.pc = "done", !.result = ErrRemoteRequestFailed(status)]
               ELSE [d EXCEPT !.pc = "done", !.result = Returned(status)]]
        /\ UNCHANGED <<now, props, currentAccessToken, tokenExpiry, refreshToken,
                       exchange, authVars, endpoint, tool>>

\* the caller has the outcome of request
Return(p) ==
    /\ call[p].pc = "done"
    /\ call' = [call EXCEPT ![p] = IdleCall]
    /\ UNCHANGED <<now, props, currentAccessToken, tokenExpiry, refreshToken,
                   exchange, authVars, endpoint, tool>>

\* a timer that refreshes ahead of use: as time passes, getAccessToken runs
\* for session s1 outside any call of request
Tick_BackgroundRefresh ==
    /\ now < MaxNow
    /\ now' = now + TickMs
    /\ call' = [call EXCEPT !["p1"] =
           IF @.pc = "idle"
           THEN BeginGetAccessToken([IdleCall EXCEPT !.session = "s1"], "s1", TRUE)
           ELSE @]
    /\ UNCHANGED <<props, currentAccessToken, tokenExpiry, refreshToken, exchange,
                   authVars, endpoint, tool>>

\* time passes
Tick ==
    /\ now < MaxNow
    /\ now' = now + TickMs
    /\ UNCHANGED <<clientVars, authVars, endpoint, tool>>

\* GDriveMCP.init: the agent of session s starts and builds its DriveClient
\* from the props the framework delivers
AgentInit(s) ==
    /\ \A p \in Procs : call[p].pc # "idle" => call[p].session # s
    /\ currentAccessToken' = [currentAccessToken EXCEPT ![s] = ConfigOf(props[s]).accessToken]
    /\ tokenExpiry' = [tokenExpiry EXCEPT ![s] = ConstructorExpiry(ConfigOf(props[s]).expiresAt)]
    /\ refreshToken' = [refreshToken EXCEPT ![s] = ConfigOf(props[s]).refreshToken]
    /\ UNCHANGED <<now, props, call, exchange, authVars, endpoint, tool>>

----------------------------------------------------------------------------
(* tokenExchangeCallback and refreshGoogleAccessToken *)

GrantTypes == {"authorization_code", "refresh_token"}

\* line 62: data.refresh_token ?? props.refreshToken
NextRefreshToken(old, data) ==
    IF data.refresh_token # None THEN Get(data.refresh_token) ELSE old

\* lines 58-65: nextProps, built at time t from the answer data
NextProps(p, data, t) ==
    [p EXCEPT !.accessToken = Get(data.access_token),
              !.refreshToken = NextRefreshToken(p.refreshToken, data),
              !.expiresAt = t + Get(data.expires_in) * 1000]

MinAccessTokenTTL == 60
AccessTokenTTLMargin == 60

\* line 70 without the floor of 60 s
AccessTokenTTL_NoFloor(expires_in) == expires_in - AccessTokenTTLMargin

\* line 70: Math.max(60, data.expires_in - 60)
AccessTokenTTL(expires_in) ==
    IF expires_in - AccessTokenTTLMargin > MinAccessTokenTTL
    THEN expires_in - AccessTokenTTLMargin ELSE MinAccessTokenTTL

\* line 36: the grant props carry what the refresh needs
HasCredentials(p) == p.refreshToken # "" /\ p.hasGoogleCredentials

\* line 52: the answer is taken for a failure
ExchangeFailed(r) ==
    \/ ~Ok(r.status)
    \/ r.access_token = None \/ Get(r.access_token) = ""
    \/ r.expires_in = None \/ Get(r.expires_in) = 0

\* lines 108-113 without the test of the grant type: every grant is refreshed
ExchangeBegin_AnyGrant(s, grantType) ==
    /\ exchange[s].pc = "idle"
    /\ exchange' = [exchange EXCEPT ![s] =
           IF ~HasCredentials(props[s])
           THEN [IdleExchange EXCEPT !.pc = "done", !.result = "thrown"]
           ELSE [IdleExchange EXCEPT !.pc = "fetch"]]
    /\ UNCHANGED <<now, props, currentAccessToken, tokenExpiry, refreshToken,
                   call, authVars, endpoint, tool>>

\* lines 108-113 and 34-49: the framework calls tokenExchangeCallback for the
\* grant of session s
ExchangeBegin(s, grantType) ==
    /\ exchange[s].pc = "idle"
    /\ exchange' = [exchange EXCEPT ![s] =
           IF grantType # "refresh_token"
           THEN [IdleExchange EXCEPT !.pc = "done", !.result = "undefined"]
           ELSE IF ~HasCredentials(props[s])
           THEN [IdleExchange EXCEPT !.pc = "done", !.result = "thrown"]
           ELSE [IdleExchange EXCEPT !.pc = "fetch"]]
    /\ UNCHANGED <<now, props, currentAccessToken, tokenExpiry, refreshToken,
                   call, authVars, endpoint, tool>>

\* lines 51-71: the token endpoint answers r; the framework stores newProps
ExchangeResponse(s, r) ==
    /\ exchange[s].pc = "fetch"
    /\ IF r.status = NetworkFailure \/ ExchangeFailed(r)
       THEN /\ exchange' = [exchange EXCEPT ![s] =
                   [IdleExchange EXCEPT !.pc = "done", !.result = "thrown"]]
            /\ UNCHANGED props
       ELSE /\ exchange' = [exchange EXCEPT ![s] =
                   [IdleExchange EXCEPT !.pc = "done", !.result = "props",
                        !.data = Some(r.refresh_token),
                        !.accessTokenTTL = AccessTokenTTL(Get(r.expires_in))]]
            /\ props' = [props EXCEPT ![s] = NextProps(@, r, now)]
    /\ UNCHANGED <<now, currentAccessToken, tokenExpiry, refreshToken, call, authVars, endpoint, tool>>

\* the framework has the outcome of tokenExchangeCallback
ExchangeReturn(s) ==
    /\ exchange[s].pc = "done"
    /\ exchange' = [exchange EXCEPT ![s] = IdleExchange]
    /\ UNCHANGED <<now, props, currentAccessToken, tokenExpiry, refreshToken,
                   call, authVars, endpoint, tool>>

----------------------------------------------------------------------------
(* The pending-state store OAUTH_KV *)

MaxKeys == 2
Keys == 1 .. MaxKeys
Callbacks == {"c1", "c2"}

MaxAuthTicks == 1
AuthTickMs == 600 * 1000

StateTtl == 600

\* put(key, value, {expirationTtl: 600}) at time t
KvPut(store, k, t) == [store EXCEPT ![k] = Some(t + StateTtl * 1000)]

\* get(key) of a store that never expires an entry
KvGet_IgnoresExpiry(store, k, t) ==
    IF k \in Keys /\ store[k] # None THEN Some(k) ELSE None

\* get(key) at time t: the value, the request of handshake k, while the entry
\* is there and has not expired
KvGet(store, k, t) ==
    IF k \in Keys /\ store[k] # None /\ t < Get(store[k]) THEN Some(k) ELSE None

\* line 85 left out
KvDelete_Missing(store, k) == store

\* delete(key)
KvDelete(store, k) == [store EXCEPT ![k] = None]

----------------------------------------------------------------------------
(* handleAuthorize *)

\* crypto.randomUUID() that repeats the key drawn last
FreshKey_Last == IF issued = {} THEN 1 ELSE Cardinality(issued)

\* crypto.randomUUID(): a key no earlier call has drawn
FreshKey == Cardinality(issued) + 1

\* lines 36-58: the request is parsed, stored under a fresh state key, and
\* the redirect to Google carries that key
Authorize ==
    /\ FreshKey \in Keys
    /\ kv' = KvPut(kv, FreshKey, now)
    /\ issued' = issued \cup {FreshKey}
    /\ UNCHANGED <<now, clientVars, endpoint, tool, cb, grants>>

----------------------------------------------------------------------------
(* handleCallback *)

\* The answers of the token endpoint to the authorization_code grant
CodeAnswers ==
    [status : {200}, body : {""},
     access_token : {Some("AT1")},
     expires_in : {Some(3600)},
     refresh_token : {None, Some(""), Some("RT1")}]
    \cup TokenFail

\* The answers of the userinfo endpoint
UserInfoAnswers ==
    [status : {200}, id : {"u1"}] \cup [status : {401, NetworkFailure}, id : {""}]

Response(status, text) == [status |-> status, text |-> text]

NoResponse == Response(0, "")
Thrown == Response(0, "fetch failed")
ErrProviderDenied == Response(400, "Google OAuth error")
ErrMissingParameter == Response(400, "Missing code or state parameter")
ErrInvalidOrExpiredState == Response(400, "Invalid or expired OAuth state")
ErrTokenExchangeFailed == Response(502, "Google token exchange failed")
ErrMissingRefreshToken == Response(400, "Google did not return a refresh token")
ErrUserInfoFailed == Response(502, "Failed to fetch Google user info")
Redirected == Response(302, "redirectTo")

\* stateKey 0 is a callback without a state parameter.  afterSuccess records
\* that a callback with the same state had already been redirected when this
\* one was called.
IdleCallback ==
    [pc |-> "idle", error |-> FALSE, code |-> FALSE, stateKey |-> 0,
     stored |-> None, tokens |-> None, tokenCalls |-> 0, userInfoCalls |-> 0,
     grantCalls |-> 0, afterSuccess |-> FALSE, response |-> NoResponse]

\* lines 82-86 without the test of stored
AfterLookup_Unchecked(c, stored) == [c EXCEPT !.pc = "delete", !.stored = stored]

\* lines 82-86: fail closed when the entry is not there, else go on to delete it
AfterLookup(c, stored) ==
    IF stored = None
    THEN [c EXCEPT !.pc = "done", !.response = ErrInvalidOrExpiredState]
    ELSE [c EXCEPT !.pc = "delete", !.stored = stored]

\* line 114 testing only that the field is there
NoRefreshToken_OnlyAbsent(tokens) == tokens.refresh_token = None

\* line 114: !tokens.refresh_token
NoRefreshToken(tokens) ==
    tokens.refresh_token = None \/ Get(tokens.refresh_token) = ""

\* line 146 without the conversion of expires_in to milliseconds
GrantProps_Seconds(tokens, t) ==
    [accessToken |-> Get(tokens.access_token),
     refreshToken |-> Get(tokens.refresh_token),
     expiresAt |-> t + Get(tokens.expires_in),
     hasGoogleCredentials |-> FALSE]

\* lines 143-147: the props of the grant, built at time t
GrantProps(tokens, t) ==
    [accessToken |-> Get(tokens.access_token),
     refreshToken |-> Get(tokens.refresh_token),
     expiresAt |-> t + Get(tokens.expires_in) * 1000,
     hasGoogleCredentials |-> FALSE]

\* lines 65-81 without lines 67-71: the error parameter is not looked at
CallbackBegin_ErrorUnchecked(q, error, code, stateKey) ==
    /\ cb[q].pc = "idle"
    /\ LET c == [IdleCallback EXCEPT !.error = error, !.code = code,
                     !.stateKey = stateKey,
                     !.afterSuccess =
                         \E i \in 1 .. Len(grants) : grants[i].request = stateKey]
       IN  cb' = [cb EXCEPT ![q] =
               IF ~code \/ stateKey = 0
               THEN [c EXCEPT !.pc = "done", !.response = ErrMissingParameter]
               ELSE [c EXCEPT !.pc = "get"]]
    /\ UNCHANGED <<now, clientVars, endpoint, tool, kv, issued, grants>>

\* lines 65-81: the callback is called; it answers at once when it carries an
\* error or lacks a parameter, else it asks the store for the state.  error
\* and code say that the parameter is there and not empty.
CallbackBegin(q, error, code, stateKey) ==
    /\ cb[q].pc = "idle"
    /\ LET c == [IdleCallback EXCEPT !.error = error, !.code = code,
                     !.stateKey = stateKey,
                     !.afterSuccess =
                         \E i \in 1 .. Len(grants) : grants[i].request = stateKey]
       IN  cb' = [cb EXCEPT ![q] =
               IF error
               THEN [c EXCEPT !.pc = "done", !.response = ErrProviderDenied]
               ELSE IF ~code \/ stateKey = 0
               THEN [c EXCEPT !.pc = "done", !.response = ErrMissingParameter]
               ELSE [c EXCEPT !.pc = "get"]]
    /\ UNCHANGED <<now, clientVars, endpoint, tool, kv, issued, grants>>

\* lines 81-85: the store answers the get
CallbackLookup(q) ==
    /\ cb[q].pc = "get"
    /\ cb' = [cb EXCEPT ![q] = AfterLookup(@, KvGet(kv, cb[q].stateKey, now))]
    /\ UNCHANGED <<now, clientVars, endpoint, tool, kv, issued, grants>>

\* lines 85-99: the store has deleted the entry; the code is sent to the
\* token endpoint
CallbackDelete(q) ==
    /\ cb[q].pc = "delete"
    /\ kv' = KvDelete(kv, cb[q].stateKey)
    /\ cb' = [cb EXCEPT ![q] = [@ EXCEPT !.pc = "token", !.tokenCalls = @ + 1]]
    /\ UNCHANGED <<now, clientVars, endpoint, tool, issued, grants>>

\* lines 101-124 with the exchange sent once more after a non-2xx answer
CallbackTokens_Retries(q, r) ==
    /\ cb[q].pc = "token"
    /\ cb' = [cb EXCEPT ![q] =
           IF r.status = NetworkFailure
           THEN [@ EXCEPT !.pc = "done", !.response = Thrown]
           ELSE IF ~Ok(r.status) /\ cb[q].tokenCalls < 2
           THEN [@ EXCEPT !.tokenCalls = @ + 1]
           ELSE IF ~Ok(r.status)
           THEN [@ EXCEPT !.pc = "done", !.response = ErrTokenExchangeFailed]
           ELSE IF NoRefreshToken(r)
           THEN [@ EXCEPT !.pc = "done", !.tokens = Some(r),
                          !.response = ErrMissingRefreshToken]
           ELSE [@ EXCEPT !.pc = "userinfo", !.tokens = Some(r),
                          !.userInfoCalls = @ + 1]]
    /\ UNCHANGED <<now, clientVars, endpoint, tool, kv, issued, grants>>

\* lines 101-124: the token endpoint answers r
CallbackTokens(q, r) ==
    /\ cb[q].pc = "token"
    /\ cb' = [cb EXCEPT ![q] =
           IF r.status = NetworkFailure
           THEN [@ EXCEPT !.pc = "done", !.response = Thrown]
           ELSE IF ~Ok(r.status)
           THEN [@ EXCEPT !.pc = "done", !.response = ErrTokenExchangeFailed]
           ELSE IF NoRefreshToken(r)
           THEN [@ EXCEPT !.pc = "done", !.tokens = Some(r),
                          !.response = ErrMissingRefreshToken]
           ELSE [@ EXCEPT !.pc = "userinfo", !.tokens = Some(r),
                          !.userInfoCalls = @ + 1]]
    /\ UNCHANGED <<now, clientVars, endpoint, tool, kv, issued, grants>>

\* lines 126-150 without the test of line 130: the grant is completed
\* whatever the userinfo endpoint answers
CallbackUserInfo_Unchecked(q, u) ==
    /\ cb[q].pc = "userinfo"
    /\ IF u.status = NetworkFailure
       THEN /\ cb' = [cb EXCEPT ![q] =
                   [@ EXCEPT !.pc = "done", !.tokens = None, !.response = Thrown]]
            /\ UNCHANGED grants
       ELSE /\ grants' = Append(grants,
                   [request |-> Get(cb[q].stored), userId |-> u.id,
                    props |-> GrantProps(Get(cb[q].tokens), now)])
            /\ cb' = [cb EXCEPT ![q] =
                   [@ EXCEPT !.pc = "done", !.tokens = None,
                             !.grantCalls = @ + 1, !.response = Redirected]]
    /\ UNCHANGED <<now, clientVars, endpoint, tool, kv, issued>>

\* lines 126-150: the userinfo endpoint answers u; on 2xx the grant is
\* completed and the framework's redirect returned
CallbackUserInfo(q, u) ==
    /\ cb[q].pc = "userinfo"
    /\ IF u.status = NetworkFailure
       THEN /\ cb' = [cb EXCEPT ![q] =
                   [@ EXCEPT !.pc = "done", !.tokens = None, !.response = Thrown]]
            /\ UNCHANGED grants
       ELSE IF ~Ok(u.status)
       THEN /\ cb' = [cb EXCEPT ![q] =
                   [@ EXCEPT !.pc = "done", !.tokens = None,
                             !.response = ErrUserInfoFailed]]
            /\ UNCHANGED grants
       ELSE /\ grants' = Append(grants,
                   [request |-> Get(cb[q].stored), userId |-> u.id,
                    props |-> GrantProps(Get(cb[q].tokens), now)])
            /\ cb' = [cb EXCEPT ![q] =
                   [@ EXCEPT !.pc = "done", !.tokens = None,
                             !.grantCalls = @ + 1, !.response = Redirected]]
    /\ UNCHANGED <<now, clientVars, endpoint, tool, kv, issued>>

\* the caller has the response of handleCallback
CallbackReturn(q) ==
    /\ cb[q].pc = "done"
    /\ cb' = [cb EXCEPT ![q] = IdleCallback]
    /\ UNCHANGED <<now, clientVars, endpoint, tool, kv, issued, grants>>

\* time passes during a handshake
AuthTick ==
    /\ now < MaxAuthTicks * AuthTickMs
    /\ now' = now + AuthTickMs
    /\ UNCHANGED <<clientVars, authVars, endpoint, tool>>

----------------------------------------------------------------------------
(* formatDriveError *)

\* A string is a sequence of pieces; a template literal is the concatenation
\* of its fixed pieces and the strings it interpolates.
MaxMessageLen == 2
MessagePieces == {"File", "not found"}
Messages == UNION {[1 .. n -> MessagePieces] : n \in 0 .. MaxMessageLen}

ErrorStatuses == {200, 400, 401, 402, 403, 404, 409, 429, 500, 503}

\* What a tool handler can catch: a DriveApiError with its status and
\* message, another Error with its message, or a value that is no Error, of
\* which message holds String(err).
CaughtErrors ==
    [kind : {"DriveApiError"}, status : ErrorStatuses, message : Messages]
    \cup [kind : {"Error", "value"}, status : {0}, message : Messages]

\* lines 146-151 with the cause left out of the 403 message
formatDriveError_NoCause(err) ==
    IF err.kind = "DriveApiError"
    THEN CASE err.status = 401 ->
                  <<"Authentication expired. Please check your credentials. (">>
                  \o err.message \o <<")">>
           [] err.status = 403 ->
                  <<"Permission denied. You don't have access to this resource.">>
           [] err.status = 404 ->
                  <<"Not found. The file or resource does not exist or you don't have access. (">>
                  \o err.message \o <<")">>
           [] err.status = 400 -> <<"Bad request: ">> \o err.message
           [] OTHER -> err.message
    ELSE err.message

\* lines 143-163
formatDriveError(err) ==
    IF err.kind = "DriveApiError"
    THEN CASE err.status = 401 ->
                  <<"Authentication expired. Please check your credentials. (">>
                  \o err.message \o <<")">>
           [] err.status = 403 ->
                  <<"Permission denied. You don't have access to this resource. (">>
                  \o err.message \o <<")">>
           [] err.status = 404 ->
                  <<"Not found. The file or resource does not exist or you don't have access. (">>
                  \o err.message \o <<")">>
           [] err.status = 400 -> <<"Bad request: ">> \o err.message
           [] OTHER -> err.message
    ELSE err.message

\* a tool handler catches err and formats it for its error response
FormatCaught ==
    /\ tool.op = "caught"
    /\ tool' = [tool EXCEPT !.op = "formatted", !.text = formatDriveError(tool.err)]
    /\ UNCHANGED <<now, clientVars, authVars, endpoint>>

----------------------------------------------------------------------------
(* DriveClient.buildMultipart *)

\* Strings are sequences of pieces, as for formatDriveError; a line break
\* "\r\n" is one piece, and so is the boundary.
CRLF == "\r\n"
Boundary == "-----gdrive-mcp-boundary"

\* params.requestBody ?? {}: an object as the sequence of its properties,
\* each a name and a string value
MetadataValues == {<<"a">>, <<"a", CRLF, "b">>}
MetadataObjects ==
    {<<>>} \cup {<<<<"name", v>>>> : v \in MetadataValues}
    \cup {<<<<"name", v>>, <<"mimeType", <<"text/plain">>>>>> : v \in MetadataValues}

\* params.media.body and params.media.mimeType
MaxContentLen == 3
ContentPieces == {"hello", CRLF, "--", Boundary}
Contents == UNION {[1 .. n -> ContentPieces] : n \in 0 .. MaxContentLen}
MimeTypes == {"text/plain", "application/json"}

RECURSIVE Escape(_)
\* JSON.stringify of a string value, without its quotes: a line break becomes
\* the escape \r\n
Escape(v) ==
    IF v = <<>> THEN <<>>
    ELSE <<IF Head(v) = CRLF THEN "\\r\\n" ELSE Head(v)>> \o Escape(Tail(v))

RECURSIVE Unescape(_)
\* JSON.parse of the inside of a string literal
Unescape(v) ==
    IF v = <<>> THEN <<>>
    ELSE <<IF Head(v) = "\\r\\n" THEN CRLF ELSE Head(v)>> \o Unescape(Tail(v))

RECURSIVE StringifyProperties(_)
StringifyProperties(o) ==
    IF o = <<>> THEN <<>>
    ELSE <<"\"", Head(o)[1], "\"", ":", "\"">> \o Escape(Head(o)[2]) \o <<"\"">>
         \o (IF Tail(o) = <<>> THEN <<>> ELSE <<",">>)
         \o StringifyProperties(Tail(o))

\* line 152: JSON.stringify(metadata)
JsonStringify(o) == <<"{">> \o StringifyProperties(o) \o <<"}">>

\* the place of the first occurrence of d in s at or after place from, or 0
IndexOf(s, d, from) ==
    LET places == {i \in from .. Len(s) - Len(d) + 1 : SubSeq(s, i, i + Len(d) - 1) = d}
    IN  IF places = {} THEN 0 ELSE CHOOSE i \in places : \A j \in places : i <= j

RECURSIVE ParseProperties(_)
\* the properties of a JSON text between its braces
ParseProperties(t) ==
    IF t = <<>> THEN <<>>
    ELSE LET close == IndexOf(t, <<"\"">>, 6)
             property == <<t[2], Unescape(SubSeq(t, 6, close - 1))>>
             rest == SubSeq(t, close + 1, Len(t))
         IN  <<property>>
             \o ParseProperties(IF rest # <<>> /\ Head(rest) = "," THEN Tail(rest) ELSE rest)

\* JSON.parse of the text of an object
JsonParse(t) == ParseProperties(SubSeq(t, 2, Len(t) - 1))

\* lines 148-160: the body and the content type of the request
buildMultipart(metadata, content, contentType) ==
    [body |->
        <<"--", Boundary, CRLF,
          "Content-Type: application/json; charset=UTF-8", CRLF,
          CRLF>>
        \o JsonStringify(metadata)
        \o <<CRLF, "--", Boundary, CRLF,
             "Content-Type: ", contentType, CRLF,
             CRLF>>
        \o content
        \o <<CRLF, "--", Boundary, "--">>,
     contentType |-> <<"multipart/related; boundary=", Boundary>>]

RECURSIVE SplitAt(_, _)
\* s.split(d)
SplitAt(s, d) ==
    LET i == IndexOf(s, d, 1)
    IN  IF i = 0 THEN <<s>>
        ELSE <<SubSeq(s, 1, i - 1)>> \o SplitAt(SubSeq(s, i + Len(d), Len(s)), d)

\* What the receiver of a multipart/related body reads: the body is split at
\* the delimiter lines, a line break and "--" and the boundary named by the
\* content type; the first delimiter opens the body, the text between two
\* delimiters is a part, and the delimiter followed by "--" closes the body.
\* A part is its header lines, an empty line, and its payload.
Delimiter(contentType) == <<CRLF, "--", contentType[2]>>

PartsOf(body, contentType) ==
    LET pieces == SplitAt(<<CRLF>> \o body, Delimiter(contentType))
        close == CHOOSE i \in 2 .. Len(pieces) + 1 :
                     /\ i = Len(pieces) + 1 \/ (pieces[i] # <<>> /\ Head(pieces[i]) = "--")
                     /\ \A j \in 2 .. i - 1 : pieces[j] = <<>> \/ Head(pieces[j]) # "--"
    IN  SubSeq(pieces, 2, close - 1)

HeaderOf(part) == SubSeq(part, 2, IndexOf(part, <<CRLF, CRLF>>, 2) - 1)
PayloadOf(part) == SubSeq(part, IndexOf(part, <<CRLF, CRLF>>, 2) + 2, Len(part))

\* lines 208 and 250: a create or an update builds the body of its upload
BuildUpload ==
    /\ tool.op = "upload"
    /\ LET built == buildMultipart(tool.metadata, tool.content, tool.mimeType)
       IN  tool' = [tool EXCEPT !.op = "built", !.body = built.body,
                                !.contentType = built.contentType]
    /\ UNCHANGED <<now, clientVars, authVars, endpoint>>

----------------------------------------------------------------------------
(* The tool handlers of the file, search and sheet tools *)

\* The handlers share one shape: the client calls are awaited inside try, the
\* answer is rendered by textResponse, and catch renders whatever was thrown
\* by errorResponse.  FailurePrefix is the text before the interpolated
\* formatDriveError(err) in each handler's catch.
FailurePrefix ==
    "gdrive_create_file" :> "Failed to create file: " @@
    "gdrive_get_file_metadata" :> "Failed to get metadata: " @@
    "gdrive_update_file" :> "Failed to update file: " @@
    "gdrive_delete_file" :> "Failed to delete file: " @@
    "gdrive_copy_file" :> "Failed to copy file: " @@
    "gdrive_move_file" :> "Failed to move file: " @@
    "gdrive_trash_file" :> "Failed to trash file: " @@
    "gdrive_untrash_file" :> "Failed to untrash file: " @@
    "gdrive_list_files" :> "Failed to list files: " @@
    "gdrive_export_file" :> "Failed to export file: " @@
    "gdrive_search" :> "Search failed: " @@
    "gsheets_get_spreadsheet" :> "Failed to get spreadsheet: " @@
    "gsheets_get_values" :> "Failed to get values: " @@
    "gsheets_batch_get_values" :> "Failed to batch get values: " @@
    "gsheets_update_values" :> "Failed to update values: " @@
    "gsheets_append_values" :> "Failed to append values: " @@
    "gsheets_clear_values" :> "Failed to clear values: " @@
    "gsheets_add_sheet" :> "Failed to add sheet: " @@
    "gsheets_delete_sheet" :> "Failed to delete sheet: " @@
    "gsheets_create_spreadsheet" :> "Failed to create spreadsheet: "

ToolNames == DOMAIN FailurePrefix

\* the client calls each handler awaits, in order, when none of them fails
\* and, for gdrive_export_file, none of its two tests refuses
ClientCalls ==
    "gdrive_create_file" :> <<"files.create">> @@
    "gdrive_get_file_metadata" :> <<"files.get">> @@
    "gdrive_update_file" :> <<"files.update">> @@
    "gdrive_delete_file" :> <<"files.delete">> @@
    "gdrive_copy_file" :> <<"files.copy">> @@
    "gdrive_move_file" :> <<"files.get", "files.update">> @@
    "gdrive_trash_file" :> <<"files.update">> @@
    "gdrive_untrash_file" :> <<"files.update">> @@
    "gdrive_list_files" :> <<"files.list">> @@
    "gdrive_export_file" :> <<"files.get", "files.export">> @@
    "gdrive_search" :> <<"files.list">> @@
    "gsheets_get_spreadsheet" :> <<"spreadsheets.get">> @@
    "gsheets_get_values" :> <<"values.get">> @@
    "gsheets_batch_get_values" :> <<"values.batchGet">> @@
    "gsheets_update_values" :> <<"values.update">> @@
    "gsheets_append_values" :> <<"values.append">> @@
    "gsheets_clear_values" :> <<"values.clear">> @@
    "gsheets_add_sheet" :> <<"spreadsheets.batchUpdate">> @@
    "gsheets_delete_sheet" :> <<"spreadsheets.batchUpdate">> @@
    "gsheets_create_spreadsheet" :> <<"spreadsheets.create">>

\* errorResponse and textResponse; textResponse has no isError property
errorResponse(message) == [isError |-> TRUE, text |-> message]
textResponse(text) == [isError |-> FALSE, text |-> text]

\* A format is a string of characters.  toLowerCase maps each character.
UpperCase ==
    "A" :> "a" @@ "B" :> "b" @@ "C" :> "c" @@ "D" :> "d" @@ "E" :> "e" @@ "F" :> "f" @@ "G" :> "g" @@ "H" :> "h" @@ "I" :> "i"
    @@ "J" :> "j" @@ "K" :> "k" @@ "L" :> "l" @@ "M" :> "m" @@ "N" :> "n" @@ "O" :> "o" @@ "P" :> "p" @@ "Q" :> "q" @@ "R" :> "r"
    @@ "S" :> "s" @@ "T" :> "t" @@ "U" :> "u" @@ "V" :> "v" @@ "W" :> "w" @@ "X" :> "x" @@ "Y" :> "y" @@ "Z" :> "z"

toLowerCase(s) ==
    [i \in DOMAIN s |-> IF s[i] \in DOMAIN UpperCase THEN UpperCase[s[i]] ELSE s[i]]

\* EXPORT_FORMATS: for each Google Workspace mime type the own properties of
\* its object literal, in source order, each a format and its export type
EXPORT_FORMATS ==
    "application/vnd.google-apps.document" :>
        <<<<<<"p", "d", "f">>, "application/pdf">>,
          <<<<"d", "o", "c", "x">>, "application/vnd.openxmlformats-officedocument.wordprocessingml.document">>,
          <<<<"t", "x", "t">>, "text/plain">>,
          <<<<"h", "t", "m", "l">>, "text/html">>,
          <<<<"m", "a", "r", "k", "d", "o", "w", "n">>, "text/markdown">>,
          <<<<"m", "d">>, "text/markdown">>,
          <<<<"e", "p", "u", "b">>, "application/epub+zip">>,
          <<<<"r", "t", "f">>, "application/rtf">>,
          <<<<"o", "d", "t">>, "application/vnd.oasis.opendocument.text">>>>
    @@ "application/vnd.google-apps.spreadsheet" :>
        <<<<<<"p", "d", "f">>, "application/pdf">>,
          <<<<"x", "l", "s", "x">>, "application/vnd.openxmlformats-officedocument.spreadsheetml.sheet">>,
          <<<<"c", "s", "v">>, "text/csv">>,
          <<<<"t", "s", "v">>, "text/tab-separated-values">>,
          <<<<"o", "d", "s">>, "application/vnd.oasis.opendocument.spreadsheet">>,
          <<<<"h", "t", "m", "l">>, "text/html">>>>
    @@ "application/vnd.google-apps.presentation" :>
        <<<<<<"p", "d", "f">>, "application/pdf">>,
          <<<<"p", "p", "t", "x">>, "application/vnd.openxmlformats-officedocument.presentationml.presentation">>,
          <<<<"t", "x", "t">>, "text/plain">>,
          <<<<"o", "d", "p">>, "application/vnd.oasis.opendocument.presentation">>>>
    @@ "application/vnd.google-apps.drawing" :>
        <<<<<<"p", "d", "f">>, "application/pdf">>,
          <<<<"p", "n", "g">>, "image/png">>,
          <<<<"j", "p", "g">>, "image/jpeg">>,
          <<<<"s", "v", "g">>, "image/svg+xml">>>>

\* The properties every object literal inherits from Object.prototype; each
\* holds a function, but __proto__, which holds Object.prototype itself.
\* All of them are truthy.
ObjectPrototype ==
    {<<"c", "o", "n", "s", "t", "r", "u", "c", "t", "o", "r">>,
     <<"_", "_", "p", "r", "o", "t", "o", "_", "_">>,
     <<"h", "a", "s", "O", "w", "n", "P", "r", "o", "p", "e", "r", "t", "y">>,
     <<"i", "s", "P", "r", "o", "t", "o", "t", "y", "p", "e", "O", "f">>,
     <<"p", "r", "o", "p", "e", "r", "t", "y", "I", "s", "E", "n", "u", "m", "e", "r", "a", "b", "l", "e">>,
     <<"t", "o", "L", "o", "c", "a", "l", "e", "S", "t", "r", "i", "n", "g">>,
     <<"t", "o", "S", "t", "r", "i", "n", "g">>,
     <<"v", "a", "l", "u", "e", "O", "f">>,
     <<"_", "_", "d", "e", "f", "i", "n", "e", "G", "e", "t", "t", "e", "r", "_", "_">>,
     <<"_", "_", "d", "e", "f", "i", "n", "e", "S", "e", "t", "t", "e", "r", "_", "_">>,
     <<"_", "_", "l", "o", "o", "k", "u", "p", "G", "e", "t", "t", "e", "r", "_", "_">>,
     <<"_", "_", "l", "o", "o", "k", "u", "p", "S", "e", "t", "t", "e", "r", "_", "_">>}

\* String(value) of an inherited property, as URLSearchParams.set takes it
InheritedValue(key) ==
    IF key = <<"_", "_", "p", "r", "o", "t", "o", "_", "_">> THEN "[object Object]" ELSE "function () { [native code] }"

\* formats[key] of an object literal: the own property, else the property
\* inherited from Object.prototype, else undefined
Property(obj, key) ==
    IF \E i \in 1 .. Len(obj) : obj[i][1] = key
    THEN Some(obj[CHOOSE i \in 1 .. Len(obj) : obj[i][1] = key][2])
    ELSE IF key \in ObjectPrototype THEN Some(InheritedValue(key))
    ELSE None

RECURSIVE JoinKeys(_)
\* Object.keys(formats).join(", ")
JoinKeys(obj) ==
    IF Len(obj) = 0 THEN <<>>
    ELSE IF Len(obj) = 1 THEN obj[1][1]
    ELSE obj[1][1] \o <<", ">> \o JoinKeys(Tail(obj))

\* params.format of gdrive_export_file: any string
Formats ==
    {<<"p", "d", "f">>,
     <<"P", "D", "F">>,
     <<"P", "d", "f">>,
     <<"d", "o", "c", "x">>,
     <<"c", "s", "v">>,
     <<"C", "S", "V">>,
     <<"m", "d">>,
     <<"p", "n", "g">>,
     <<"e", "x", "e">>,
     <<>>,
     <<"c", "o", "n", "s", "t", "r", "u", "c", "t", "o", "r">>,
     <<"C", "o", "n", "s", "t", "r", "u", "c", "t", "o", "r">>,
     <<"_", "_", "p", "r", "o", "t", "o", "_", "_">>,
     <<"t", "o", "S", "t", "r", "i", "n", "g">>,
     <<"v", "a", "l", "u", "e", "O", "f">>}

\* file.data.mimeType of the metadata answer; None is an answer without it
MetadataMimeTypes ==
    {Some(m) : m \in DOMAIN EXPORT_FORMATS}
    \cup {Some("application/pdf"), Some("application/vnd.google-apps.folder"), None}

\* A handler that was called: no client call made yet
CalledHandler(name, format) ==
    [op |-> "handler", name |-> name, format |-> format, pc |-> "called",
     calls |-> <<>>, mimeType |-> "", exportMime |-> None, err |-> None,
     response |-> textResponse(<<>>)]

\* the handler runs up to its first await: every handler makes its first
\* client call whatever its parameters
HandlerCall ==
    /\ tool.op = "handler" /\ tool.pc = "called"
    /\ tool' = [tool EXCEPT !.pc = "await", !.calls = <<ClientCalls[tool.name][1]>>]
    /\ UNCHANGED <<now, clientVars, authVars, endpoint>>

\* catch that returns a success response for the failure
ClientThrows_Swallowed(err) ==
    /\ tool.op = "handler" /\ tool.pc = "await"
    /\ tool' = [tool EXCEPT !.pc = "done", !.err = Some(err),
                    !.response = textResponse(<<"No files found.">>)]
    /\ UNCHANGED <<now, clientVars, authVars, endpoint>>

\* the awaited client call rejects with err: catch returns
\* errorResponse(`<prefix>${formatDriveError(err)}`)
ClientThrows(err) ==
    /\ tool.op = "handler" /\ tool.pc = "await"
    /\ tool' = [tool EXCEPT !.pc = "done", !.err = Some(err),
                    !.response = errorResponse(<<FailurePrefix[tool.name]>>
                                               \o formatDriveError(err))]
    /\ UNCHANGED <<now, clientVars, authVars, endpoint>>

\* part_001 lines 348-364: gdrive_export_file after its metadata answer
AfterMetadata(t, answer) ==
    LET mimeType == IF answer = None THEN "" ELSE Get(answer)
        formats == IF mimeType \in DOMAIN EXPORT_FORMATS
                   THEN Some(EXPORT_FORMATS[mimeType]) ELSE None
    IN  IF formats = None
        THEN [t EXCEPT !.pc = "done", !.mimeType = mimeType,
                 !.response = errorResponse(
                     <<"File type \"", mimeType,
                       "\" is not a Google Workspace file and cannot be exported. Only Docs, Sheets, Slides, and Drawings support export.">>)]
        ELSE LET exportMime == Property(Get(formats), toLowerCase(t.format))
             IN  IF exportMime = None
                 THEN [t EXCEPT !.pc = "done", !.mimeType = mimeType,
                          !.response = errorResponse(
                              <<"Format \"">> \o t.format
                              \o <<"\" is not supported for ", mimeType,
                                   ". Supported formats: ">>
                              \o JoinKeys(Get(formats)))]
                 ELSE [t EXCEPT !.mimeType = mimeType, !.exportMime = exportMime,
                          !.calls = Append(@, "files.export")]

\* the awaited client call is answered: the handler makes its next client
\* call or returns textResponse of what it rendered.  answer is the mimeType
\* of a metadata answer; the other answers are rendered as they are.
ClientReturns(answer) ==
    /\ tool.op = "handler" /\ tool.pc = "await"
    /\ tool' =
           IF tool.name = "gdrive_export_file" /\ Len(tool.calls) = 1
           THEN AfterMetadata(tool, answer)
           ELSE IF Len(tool.calls) < Len(ClientCalls[tool.name])
           THEN [tool EXCEPT !.calls = Append(@, ClientCalls[tool.name][Len(@) + 1])]
           ELSE [tool EXCEPT !.pc = "done",
                     !.response = textResponse(<<"res.data">>)]
    /\ UNCHANGED <<now, clientVars, authVars, endpoint>>

----------------------------------------------------------------------------
(* The specifications *)

Init ==
    /\ now = 0
    /\ props \in [Sessions -> InitProps]
    /\ \A s \in Sessions : 
          \/ s = "s1" /\ ~props[s].hasGoogleCredentials
          \/ props[s] = DefaultProps
    /\ currentAccessToken = [s \in Sessions |-> ConfigOf(props[s]).accessToken]
    /\ tokenExpiry = [s \in Sessions |-> ConstructorExpiry(ConfigOf(props[s]).expiresAt)]
    /\ refreshToken = [s \in Sessions |-> ConfigOf(props[s]).refreshToken]
    /\ call = [p \in Procs |-> IdleCall]
    /\ exchange = [s \in Sessions |-> IdleExchange]
    /\ kv = [k \in Keys |-> None]
    /\ issued = {}
    /\ cb = [q \in Callbacks |-> IdleCallback]
    /\ grants = <<>>
    /\ endpoint = IdleEndpoint
    /\ tool = IdleTool

Next ==
    \/ \E p \in Procs : Request(p, "s1")
    \/ \E p \in Procs, r \in TokenResponses :
           RefreshResponse(p, r) /\ UNCHANGED endpoint
    \/ \E p \in Procs, status \in ApiStatuses \cup {NetworkFailure} : ApiResponse(p, status)
    \/ \E p \in Procs : Return(p)
    \/ Tick

Spec == Init /\ [][Next]_vars

\* One DriveClient serving one call of request after another, with every
\* network call returning or failing: a fetch that is under way is answered
\* in the end, with any answer of the token endpoint or of the remote API.
NetworkAnswers(p) ==
    \/ \E r \in TokenResponses : RefreshResponse(p, r) /\ UNCHANGED endpoint
    \/ \E status \in ApiStatuses \cup {NetworkFailure} : ApiResponse(p, status)

LiveNext ==
    \/ Request("p1", "s1")
    \/ NetworkAnswers("p1")
    \/ Return("p1")
    \/ Tick

LiveSpec == Init /\ [][LiveNext]_vars /\ WF_vars(NetworkAnswers("p1"))

\* A token endpoint that rotates refresh tokens: it answers the exchange of
\* call p with r.  An exchange that carries the refresh token in force gets a
\* 2xx answer with an access token and, when the endpoint rotates, a new
\* refresh token, which from then on is the one in force; an exchange that
\* carries a refresh token rotated away meanwhile is rejected with
\* invalid_grant.  The token in force is the one the client stored last.
RotatingEndpoint(p, r) ==
    IF call[p].sent = refreshToken[call[p].session]
    THEN /\ r \in TokenOk
         /\ Get(r.access_token) # ""
         /\ r.refresh_token # Some("")
    ELSE r.status = 400 /\ r.body = "invalid_grant"

\* Two overlapping calls of request on one DriveClient whose token endpoint
\* rotates refresh tokens and never fails.
RotInit == Init /\ refreshToken["s1"] # ""

RotNext ==
    \/ \E p \in Procs : Request(p, "s1")
    \/ \E p \in Procs, r \in TokenResponses :
           RotatingEndpoint(p, r) /\ RefreshResponse(p, r) /\ UNCHANGED endpoint
    \/ \E p \in Procs, status \in {200, 401} : ApiResponse(p, status)
    \/ \E p \in Procs : Return(p)
    \/ Tick

RotSpec == RotInit /\ [][RotNext]_vars

\* Two sessions, each with its own agent and DriveClient and one call of
\* request at a time.  The provider issues every grant its own tokens: the
\* props of a session, and the answers to its exchanges, carry tokens of that
\* session only.
HomeSession == [p \in Procs |-> IF p = "p1" THEN "s1" ELSE "s2"]

GrantTokens ==
    [s \in Sessions |->
        IF s = "s1"
        THEN [access |-> <<"AT1", "AT2">>, refresh |-> <<"RT1", "RT2">>]
        ELSE [access |-> <<"BT1", "BT2">>, refresh |-> <<"ST1", "ST2">>]]

TwoProps ==
    [s \in Sessions |->
        [accessToken |-> GrantTokens[s].access[1],
         refreshToken |-> GrantTokens[s].refresh[1],
         expiresAt |-> TickMs, hasGoogleCredentials |-> FALSE]]

\* the answers of the token endpoint to an exchange of session s
TwoAnswers(s) ==
    [status : {200}, body : {""},
     access_token : {Some(GrantTokens[s].access[2])},
     expires_in : {Some(e) : e \in ExpiresIn},
     refresh_token : {None, Some(GrantTokens[s].refresh[2])}]
    \cup TokenFail

TwoInit ==
    /\ now = 0
    /\ props = TwoProps
    /\ currentAccessToken = [s \in Sessions |-> ConfigOf(props[s]).accessToken]
    /\ tokenExpiry = [s \in Sessions |-> ConstructorExpiry(ConfigOf(props[s]).expiresAt)]
    /\ refreshToken = [s \in Sessions |-> ConfigOf(props[s]).refreshToken]
    /\ call = [p \in Procs |-> IdleCall]
    /\ exchange = [s \in Sessions |-> IdleExchange]
    /\ kv = [k \in Keys |-> None]
    /\ issued = {}
    /\ cb = [q \in Callbacks |-> IdleCallback]
    /\ grants = <<>>
    /\ endpoint = IdleEndpoint
    /\ tool = IdleTool

TwoNext ==
    \/ \E p \in Procs : Request(p, HomeSession[p])
    \/ \E p \in Procs : \E r \in TwoAnswers(call[p].session) :
           RefreshResponse(p, r) /\ UNCHANGED endpoint
    \/ \E p \in Procs, status \in {200, 401, NetworkFailure} : ApiResponse(p, status)
    \/ \E p \in Procs : Return(p)
    \/ \E s \in Sessions : AgentInit(s)
    \/ Tick

TwoSpec == TwoInit /\ [][TwoNext]_vars

\* One session whose agent is started again, from the props the framework
\* holds, between the calls of request it serves; the framework makes no
\* token exchange of its own.
ReinitNext ==
    \/ Request("p1", "s1")
    \/ \E r \in TokenResponses : RefreshResponse("p1", r) /\ UNCHANGED endpoint
    \/ \E status \in ApiStatuses \cup {NetworkFailure} : ApiResponse("p1", status)
    \/ Return("p1")
    \/ AgentInit("s1")
    \/ Tick

ReinitSpec == Init /\ [][ReinitNext]_vars

\* lines 136-148 of handleCallback: the framework keeps the props of a
\* completed grant and hands them, as the props of session s, to the agent
\* and to tokenExchangeCallback
GrantDelivered(s) ==
    /\ exchange[s].pc = "idle"
    /\ \E i \in 1 .. Len(grants) : props' = [props EXCEPT ![s] = grants[i].props]
    /\ UNCHANGED <<now, currentAccessToken, tokenExpiry, refreshToken, call,
                   exchange, authVars, endpoint, tool>>

\* A handshake, the session that is given its grant, and the framework's
\* token exchanges on that session.
RenewInit ==
    /\ now = 0
    /\ props \in [Sessions -> InitProps]
    /\ \A s \in Sessions : s = "s1" \/ props[s] = DefaultProps
    /\ currentAccessToken = [s \in Sessions |-> ConfigOf(props[s]).accessToken]
    /\ tokenExpiry = [s \in Sessions |-> ConstructorExpiry(ConfigOf(props[s]).expiresAt)]
    /\ refreshToken = [s \in Sessions |-> ConfigOf(props[s]).refreshToken]
    /\ call = [p \in Procs |-> IdleCall]
    /\ exchange = [s \in Sessions |-> IdleExchange]
    /\ kv = [k \in Keys |-> None]
    /\ issued = {}
    /\ cb = [q \in Callbacks |-> IdleCallback]
    /\ grants = <<>>
    /\ endpoint = IdleEndpoint
    /\ tool = IdleTool

RenewNext ==
    \/ Authorize
    \/ \E error \in BOOLEAN, code \in BOOLEAN, k \in {0} \cup Keys :
           CallbackBegin("c1", error, code, k)
    \/ CallbackLookup("c1")
    \/ CallbackDelete("c1")
    \/ \E r \in CodeAnswers : CallbackTokens("c1", r)
    \/ \E u \in UserInfoAnswers : CallbackUserInfo("c1", u)
    \/ CallbackReturn("c1")
    \/ GrantDelivered("s1")
    \/ \E g \in GrantTypes : ExchangeBegin("s1", g)
    \/ \E r \in TokenResponses : ExchangeResponse("s1", r)
    \/ ExchangeReturn("s1")

RenewSpec == RenewInit /\ [][RenewNext]_vars

\* A token endpoint that rotates the refresh token on every exchange it
\* accepts.  IssueOrder lists the refresh tokens of the grant in the order
\* the endpoint issues them; endpoint.issued is the place of the one issued
\* last, which supersedes all before it.  endpoint.answer[p] is the answer
\* under way to call p: 0 none, Rejected an invalid_grant, k the 2xx answer
\* that carries IssueOrder[k].
IssueOrder == <<"RT1", "RT2", "RT3">>
Rejected == -1

\* lines 45-54 seen from the endpoint: it handles the exchange of call p.  An
\* exchange that carries the token issued last is accepted; one that carries
\* a superseded token is rejected, or, within the endpoint's reuse grace,
\* accepted like the other.
EndpointAnswers(p, grace) ==
    /\ call[p].pc = "refresh"
    /\ endpoint.answer[p] = 0
    /\ IF call[p].sent = IssueOrder[endpoint.issued] \/ grace
       THEN /\ endpoint.issued < Len(IssueOrder)
            /\ endpoint' = [issued |-> endpoint.issued + 1,
                            answer |-> [endpoint.answer EXCEPT ![p] = endpoint.issued + 1]]
       ELSE endpoint' = [endpoint EXCEPT !.answer[p] = Rejected]
    /\ UNCHANGED <<now, clientVars, authVars, tool>>

\* res.json() of the answer k
AnswerOf(k) ==
    IF k = Rejected
    THEN [status |-> 400, body |-> "invalid_grant", access_token |-> None,
          expires_in |-> None, refresh_token |-> None]
    ELSE [status |-> 200, body |-> "", access_token |-> Some("AT2"),
          expires_in |-> Some(3600), refresh_token |-> Some(IssueOrder[k])]

\* lines 56-81: the answer of the endpoint reaches call p
Deliver(p) ==
    /\ endpoint.answer[p] # 0
    /\ RefreshResponse(p, AnswerOf(endpoint.answer[p]))
    /\ endpoint' = [endpoint EXCEPT !.answer[p] = 0]

\* Two overlapping calls of request on one DriveClient whose grant holds the
\* first refresh token of the rotating endpoint.
RaceInit == Init /\ refreshToken["s1"] = IssueOrder[1]

RaceNext ==
    \/ \E p \in Procs : Request(p, "s1")
    \/ \E p \in Procs, grace \in BOOLEAN : EndpointAnswers(p, grace)
    \/ \E p \in Procs : Deliver(p)
    \/ \E p \in Procs, status \in {200, 401} : ApiResponse(p, status)
    \/ \E p \in Procs : Return(p)
    \/ Tick

RaceSpec == RaceInit /\ [][RaceNext]_vars

\* A tool handler that has caught an error, any of CaughtErrors.
FormatInit ==
    /\ now = 0
    /\ props = [s \in Sessions |-> DefaultProps]
    /\ currentAccessToken = [s \in Sessions |-> ConfigOf(props[s]).accessToken]
    /\ tokenExpiry = [s \in Sessions |-> ConstructorExpiry(ConfigOf(props[s]).expiresAt)]
    /\ refreshToken = [s \in Sessions |-> ConfigOf(props[s]).refreshToken]
    /\ call = [p \in Procs |-> IdleCall]
    /\ exchange = [s \in Sessions |-> IdleExchange]
    /\ kv = [k \in Keys |-> None]
    /\ issued = {}
    /\ cb = [q \in Callbacks |-> IdleCallback]
    /\ grants = <<>>
    /\ endpoint = IdleEndpoint
    /\ tool \in [op : {"caught"}, err : CaughtErrors, text : {<<>>}]

FormatNext == FormatCaught

FormatSpec == FormatInit /\ [][FormatNext]_vars

\* An upload of any metadata object, content and content type.
MultipartInit ==
    /\ now = 0
    /\ props = [s \in Sessions |-> DefaultProps]
    /\ currentAccessToken = [s \in Sessions |-> ConfigOf(props[s]).accessToken]
    /\ tokenExpiry = [s \in Sessions |-> ConstructorExpiry(ConfigOf(props[s]).expiresAt)]
    /\ refreshToken = [s \in Sessions |-> ConfigOf(props[s]).refreshToken]
    /\ call = [p \in Procs |-> IdleCall]
    /\ exchange = [s \in Sessions |-> IdleExchange]
    /\ kv = [k \in Keys |-> None]
    /\ issued = {}
    /\ cb = [q \in Callbacks |-> IdleCallback]
    /\ grants = <<>>
    /\ endpoint = IdleEndpoint
    /\ tool \in [op : {"upload"}, metadata : MetadataObjects, content : Contents,
                 mimeType : MimeTypes, body : {<<>>}, contentType : {<<>>}]

MultipartNext == BuildUpload

MultipartSpec == MultipartInit /\ [][MultipartNext]_vars

\* lines 51-71 for an answer that carries any positive expires_in: what
\* refreshGoogleAccessToken returns as accessTokenTTL
MaxExpiresIn == 200

ReturnTTL ==
    /\ tool.op = "answered"
    /\ tool' = [tool EXCEPT !.op = "returned",
                            !.accessTokenTTL = AccessTokenTTL(tool.expires_in)]
    /\ UNCHANGED <<now, clientVars, authVars, endpoint>>

TtlInit ==
    /\ now = 0
    /\ props = [s \in Sessions |-> DefaultProps]
    /\ currentAccessToken = [s \in Sessions |-> ConfigOf(props[s]).accessToken]
    /\ tokenExpiry = [s \in Sessions |-> ConstructorExpiry(ConfigOf(props[s]).expiresAt)]
    /\ refreshToken = [s \in Sessions |-> ConfigOf(props[s]).refreshToken]
    /\ call = [p \in Procs |-> IdleCall]
    /\ exchange = [s \in Sessions |-> IdleExchange]
    /\ kv = [k \in Keys |-> None]
    /\ issued = {}
    /\ cb = [q \in Callbacks |-> IdleCallback]
    /\ grants = <<>>
    /\ endpoint = IdleEndpoint
    /\ tool \in [op : {"answered"}, expires_in : 1 .. MaxExpiresIn, accessTokenTTL : {0}]

TtlNext == ReturnTTL

TtlSpec == TtlInit /\ [][TtlNext]_vars

\* One session whose grant is refreshed by the framework while its agent
\* serves one request at a time.
GrantInit ==
    /\ now = 0
    /\ props \in [Sessions -> InitProps]
    /\ \A s \in Sessions : s = "s1" \/ props[s] = DefaultProps
    /\ currentAccessToken = [s \in Sessions |-> ConfigOf(props[s]).accessToken]
    /\ tokenExpiry = [s \in Sessions |-> ConstructorExpiry(ConfigOf(props[s]).expiresAt)]
    /\ refreshToken = [s \in Sessions |-> ConfigOf(props[s]).refreshToken]
    /\ call = [p \in Procs |-> IdleCall]
    /\ exchange = [s \in Sessions |-> IdleExchange]
    /\ kv = [k \in Keys |-> None]
    /\ issued = {}
    /\ cb = [q \in Callbacks |-> IdleCallback]
    /\ grants = <<>>
    /\ endpoint = IdleEndpoint
    /\ tool = IdleTool

GrantNext ==
    \/ Request("p1", "s1")
    \/ \E r \in TokenResponses : RefreshResponse("p1", r) /\ UNCHANGED endpoint
    \/ \E status \in ApiStatuses \cup {NetworkFailure} : ApiResponse("p1", status)
    \/ Return("p1")
    \/ AgentInit("s1")
    \/ \E g \in GrantTypes : ExchangeBegin("s1", g)
    \/ \E r \in TokenResponses : ExchangeResponse("s1", r)
    \/ ExchangeReturn("s1")
    \/ Tick

GrantSpec == GrantInit /\ [][GrantNext]_vars

\* The framework's token exchanges on one session, with a token endpoint
\* that may also answer 2xx without an access_token or without a usable
\* expires_in.
IncompleteAnswers ==
    [status : {200}, body : {""}, access_token : {None}, expires_in : {Some(3600)},
     refresh_token : {None, Some("RT2")}]
    \cup [status : {200}, body : {""}, access_token : {Some("AT2")},
          expires_in : {None, Some(0)}, refresh_token : {None, Some("RT2")}]

ExchangeAnswers == TokenResponses \cup IncompleteAnswers

ExchangeNext ==
    \/ \E g \in GrantTypes : ExchangeBegin("s1", g)
    \/ \E r \in ExchangeAnswers : ExchangeResponse("s1", r)
    \/ ExchangeReturn("s1")
    \/ Tick

ExchangeSpec == GrantInit /\ [][ExchangeNext]_vars

\* One call of any tool handler; gdrive_export_file with any format.
ToolInit ==
    /\ now = 0
    /\ props = [s \in Sessions |-> DefaultProps]
    /\ currentAccessToken = [s \in Sessions |-> ConfigOf(props[s]).accessToken]
    /\ tokenExpiry = [s \in Sessions |-> ConstructorExpiry(ConfigOf(props[s]).expiresAt)]
    /\ refreshToken = [s \in Sessions |-> ConfigOf(props[s]).refreshToken]
    /\ call = [p \in Procs |-> IdleCall]
    /\ exchange = [s \in Sessions |-> IdleExchange]
    /\ kv = [k \in Keys |-> None]
    /\ issued = {}
    /\ cb = [q \in Callbacks |-> IdleCallback]
    /\ grants = <<>>
    /\ endpoint = IdleEndpoint
    /\ tool \in {CalledHandler(n, <<>>) : n \in ToolNames \ {"gdrive_export_file"}}
                \cup {CalledHandler("gdrive_export_file", f) : f \in Formats}

ToolNext ==
    \/ HandlerCall
    \/ \E err \in CaughtErrors : ClientThrows(err)
    \/ \E answer \in MetadataMimeTypes : ClientReturns(answer)

ToolSpec == ToolInit /\ [][ToolNext]_vars

\* The handshake: authorizations begun, and callbacks that carry any state
\* key, issued or not, in any interleaving.
AuthInit ==
    /\ now = 0
    /\ props = [s \in Sessions |-> DefaultProps]
    /\ currentAccessToken = [s \in Sessions |-> ConfigOf(props[s]).accessToken]
    /\ tokenExpiry = [s \in Sessions |-> ConstructorExpiry(ConfigOf(props[s]).expiresAt)]
    /\ refreshToken = [s \in Sessions |-> ConfigOf(props[s]).refreshToken]
    /\ call = [p \in Procs |-> IdleCall]
    /\ exchange = [s \in Sessions |-> IdleExchange]
    /\ kv = [k \in Keys |-> None]
    /\ issued = {}
    /\ cb = [q \in Callbacks |-> IdleCallback]
    /\ grants = <<>>
    /\ endpoint = IdleEndpoint
    /\ tool = IdleTool

AuthNext ==
    \/ Authorize
    \/ \E q \in Callbacks, error \in BOOLEAN, code \in BOOLEAN, k \in {0} \cup Keys :
           CallbackBegin(q, error, code, k)
    \/ \E q \in Callbacks : CallbackLookup(q)
    \/ \E q \in Callbacks : CallbackDelete(q)
    \/ \E q \in Callbacks, r \in CodeAnswers : CallbackTokens(q, r)
    \/ \E q \in Callbacks, u \in UserInfoAnswers : CallbackUserInfo(q, u)
    \/ \E q \in Callbacks : CallbackReturn(q)
    \/ AuthTick

AuthSpec == AuthInit /\ [][AuthNext]_vars

----------------------------------------------------------------------------
(* Properties of request and getAccessToken, checked under Spec *)

\* the stored token was returned by the call's non-forced getAccessToken
EntryCurrent(c) == ~c.entryExpired /\ c.entryHasAccessToken

First401Then(c, second) ==
    c.pc = "done" /\ c.status1 = Some(401) /\ c.status2 = Some(second)

\* C1 as stated: from any session state, a request answered 401 then 200
\* makes exactly two remote calls and exactly one refresh exchange and returns
\* the 200 response.
C1_AnyState_OneRefresh ==
    \A p \in Procs :
        First401Then(call[p], 200) =>
            /\ call[p].apiCalls = 2
            /\ call[p].refreshCalls = 1
            /\ call[p].result = Returned(200)

\* C1 amended: a request answered 401 then 200 makes exactly two remote
\* calls and returns the 200 response; it makes exactly one refresh exchange
\* when the stored token was current at entry, and two (the initial refresh
\* and the forced one) when it was not.
C1_RetryOnce ==
    \A p \in Procs :
        First401Then(call[p], 200) =>
            /\ call[p].apiCalls = 2
            /\ call[p].refreshCalls = (IF EntryCurrent(call[p]) THEN 1 ELSE 2)
            /\ call[p].result = Returned(200)

C1_Witness ==
    \E p \in Procs :
        /\ First401Then(call[p], 200)
        /\ EntryCurrent(call[p])
        /\ call[p].refreshCalls = 1

\* C2 as stated: a request answered 401 twice fails with DriveApiError 401
\* after exactly two remote calls and exactly one refresh exchange.
C2_AnyState_OneRefresh ==
    \A p \in Procs :
        First401Then(call[p], 401) =>
            /\ call[p].apiCalls = 2
            /\ call[p].refreshCalls = 1
            /\ call[p].result = ErrRemoteRequestFailed(401)

\* C2 amended: a request answered 401 twice fails with DriveApiError 401
\* after exactly two remote calls, and no call of request ever makes a third;
\* it makes exactly one refresh exchange when the stored token was current at
\* entry, and two when it was not.
C2_SecondRejectionIsFinal ==
    \A p \in Procs :
        /\ call[p].apiCalls <= 2
        /\ First401Then(call[p], 401) =>
              /\ call[p].apiCalls = 2
              /\ call[p].refreshCalls = (IF EntryCurrent(call[p]) THEN 1 ELSE 2)
              /\ call[p].result = ErrRemoteRequestFailed(401)

C2_Witness ==
    \E p \in Procs :
        /\ First401Then(call[p], 401)
        /\ EntryCurrent(call[p])
        /\ call[p].result = ErrRemoteRequestFailed(401)

\* C3: a first answer that is neither 2xx nor 401 ends the request: no forced
\* refresh, no second remote call, and the failure carries that status.  Only
\* a first answer of 401 is followed by a second attempt.
C3_Only401IsRetried ==
    \A p \in Procs :
        LET c == call[p] IN
        /\ c.attempt = 2 => c.status1 = Some(401)
        /\ (/\ c.status1 # None
            /\ Get(c.status1) \notin {401, NetworkFailure}
            /\ ~Ok(Get(c.status1))) =>
              /\ c.pc = "done"
              /\ c.attempt = 1
              /\ c.apiCalls = 1
              /\ c.status2 = None
              /\ c.refreshCalls = (IF EntryCurrent(c) THEN 0 ELSE 1)
              /\ c.result = ErrRemoteRequestFailed(Get(c.status1))

C3_Witness ==
    \E p \in Procs :
        /\ call[p].status1 = Some(403)
        /\ call[p].result = ErrRemoteRequestFailed(403)
        /\ call[p].refreshCalls = 0

\* C4 as stated: whenever now >= expiresAt at entry, the non-forced
\* getAccessToken makes a refresh exchange.
C4_ExpiredAlwaysExchanges ==
    \A p \in Procs :
        (call[p].pc # "idle" /\ call[p].entryExpired) => call[p].refreshCalls >= 1

\* the 2xx answers of the token endpoint that carry access token t
AnswersGiving(t) == {r \in TokenOk : r.access_token = Some(t)}

\* a step in which the non-forced getAccessToken of call p is entered
Enters(p) == call[p].pc = "idle" /\ call'[p].pc # "idle"

\* C4 amended: when now >= expiresAt the non-forced getAccessToken never
\* returns the stored token.  With a refresh token that is not empty it makes
\* exactly one refresh exchange, and when that succeeds the expiry becomes
\* now + (expires_in - 60 s), now read when the answer is processed, and the
\* token returned is the answer's access_token; with an empty refresh token
\* it fails without an exchange.
C4_ExpiredTokenIsRefreshed ==
    [][\A p \in Procs :
        LET s == call'[p].session IN
        /\ (Enters(p) /\ now >= tokenExpiry[s]) => call'[p].pc # "request"
        /\ (Enters(p) /\ now >= tokenExpiry[s] /\ refreshToken[s] = "") =>
              /\ call'[p].pc = "done"
              /\ call'[p].result = ErrNoRefreshToken
              /\ call'[p].refreshCalls = 0
        /\ (Enters(p) /\ now >= tokenExpiry[s] /\ refreshToken[s] # "") =>
              /\ call'[p].pc = "refresh"
              /\ call'[p].refreshCalls = 1
              /\ call'[p].apiCalls = 0
        /\ (call[p].pc = "refresh" /\ call[p].attempt = 1 /\ call'[p] # call[p]) =>
              /\ call'[p].refreshCalls = 1
              /\ call'[p].pc \in {"request", "done"}
              /\ call'[p].pc = "done" => tokenExpiry'[s] = tokenExpiry[s]
              /\ call'[p].pc = "request" =>
                    \A r \in AnswersGiving(call'[p].token) :
                        RefreshResponse(p, r) =>
                            tokenExpiry'[s] = now + (Get(r.expires_in) - 60) * 1000
      ]_vars

C4_Witness ==
    \E p \in Procs :
        /\ call[p].pc = "request"
        /\ call[p].attempt = 1
        /\ call[p].entryExpired
        /\ call[p].entryHasAccessToken
        /\ call[p].refreshCalls = 1

\* C5 as stated: whenever now < expiresAt at entry, the non-forced
\* getAccessToken makes no refresh exchange.
C5_UnexpiredNeverExchanges ==
    \A p \in Procs :
        (call[p].attempt = 1 /\ ~call[p].entryExpired) => call[p].refreshCalls = 0

\* C5 amended: when now < expiresAt and the stored access token is not
\* empty, the non-forced getAccessToken makes no network call and returns
\* the stored access token, and the pair is left as it was.
C5_CurrentTokenIsReused ==
    [][\A p \in Procs :
        LET s == call'[p].session IN
        (Enters(p) /\ now < tokenExpiry[s] /\ currentAccessToken[s] # "") =>
            /\ call'[p].refreshCalls = 0
            /\ call'[p].pc = "request"
            /\ call'[p].token = currentAccessToken[s]
            /\ currentAccessToken'[s] = currentAccessToken[s]
            /\ tokenExpiry'[s] = tokenExpiry[s]
            /\ refreshToken'[s] = refreshToken[s]
      ]_vars

C5_Witness ==
    \E p \in Procs :
        /\ call[p].pc = "request"
        /\ call[p].attempt = 1
        /\ EntryCurrent(call[p])
        /\ call[p].refreshCalls = 0
        /\ call[p].token = currentAccessToken[call[p].session]

----------------------------------------------------------------------------
(* Properties of the two refreshers, checked under GrantSpec *)

\* the refresh token after a refresh that took an answer whose refresh_token
\* field is field: kept when the answer has none, and changed only to the
\* value the answer carries
KeepsOrTakes(before, after, field) ==
    /\ field = None => after = before
    /\ after # before => (field # None /\ after = Get(field))

\* C6: a successful refresh whose answer carries no refresh_token leaves the
\* refresh token as it was, and the refresh token changes only to a value the
\* answer carries; in DriveClient.getAccessToken and in
\* refreshGoogleAccessToken alike.
C6_RefreshTokenKeptUnlessReturned ==
    [][/\ \A p \in Procs :
            (call[p].pc = "refresh" /\ call'[p].pc = "request") =>
                KeepsOrTakes(refreshToken[call[p].session],
                             refreshToken'[call[p].session],
                             Get(call'[p].data))
       /\ \A s \in Sessions :
            (exchange[s].pc = "fetch" /\ exchange'[s].result = "props") =>
                KeepsOrTakes(props[s].refreshToken, props'[s].refreshToken,
                             Get(exchange'[s].data))
      ]_vars

C6_Witness ==
    /\ \E p \in Procs :
          /\ call[p].pc = "request"
          /\ call[p].data = Some(None)
          /\ refreshToken[call[p].session] = "RT1"
    /\ \E s \in Sessions :
          /\ exchange[s].result = "props"
          /\ exchange[s].data = Some(None)
          /\ props[s].refreshToken = "RT1"

----------------------------------------------------------------------------
(* Properties of handleCallback, checked under AuthSpec *)

NoSideEffects(c) == c.tokenCalls = 0 /\ c.userInfoCalls = 0 /\ c.grantCalls = 0

\* C7: a callback called after a callback with the same state has been
\* redirected never succeeds: it reaches neither the token endpoint nor
\* completeAuthorization, and when it carries a code and no error it fails
\* with "Invalid or expired OAuth state".
C7_SecondCallbackFails ==
    \A q \in Callbacks :
        cb[q].afterSuccess =>
            /\ NoSideEffects(cb[q])
            /\ cb[q].response # Redirected
            /\ (cb[q].pc = "done" /\ ~cb[q].error /\ cb[q].code) =>
                  cb[q].response = ErrInvalidOrExpiredState

C7_Witness ==
    \E q \in Callbacks :
        /\ cb[q].afterSuccess
        /\ cb[q].response = ErrInvalidOrExpiredState
        /\ \E i \in 1 .. Len(grants) : grants[i].request = cb[q].stateKey

\* C8 as stated: under any interleaving of callbacks that carry the same
\* state, at most one of them gets past the lookup of the pending state.
C8_ConsumedOnce ==
    \A q1, q2 \in Callbacks :
        (q1 # q2 /\ cb[q1].stored # None) => cb[q1].stored # cb[q2].stored

\* C9: a callback whose state is not in the store fails with "Invalid or
\* expired OAuth state" and calls neither the token endpoint nor the userinfo
\* endpoint nor completeAuthorization.
C9_UnknownStateFailsClosed ==
    [][\A q \in Callbacks :
        (/\ cb[q].pc = "get"
         /\ cb'[q] # cb[q]
         /\ kv[cb[q].stateKey] = None) =>
            /\ cb'[q].pc = "done"
            /\ cb'[q].response = ErrInvalidOrExpiredState
            /\ NoSideEffects(cb'[q])
            /\ grants' = grants
            /\ kv' = kv
      ]_vars

C9_Witness ==
    \E q \in Callbacks :
        /\ cb[q].pc = "done"
        /\ cb[q].response = ErrInvalidOrExpiredState
        /\ cb[q].stateKey \notin issued
        /\ NoSideEffects(cb[q])

\* C10: when the code exchange answers 2xx without a refresh token (the
\* field absent or empty), the callback fails with "Google did not return a
\* refresh token", the userinfo endpoint is not called and no grant is
\* completed; so no grant carries an empty refresh token.
C10_MissingRefreshTokenIsFatal ==
    /\ \A q \in Callbacks :
          (/\ cb[q].tokens # None
           /\ Get(cb[q].tokens).refresh_token \in {None, Some("")}) =>
              /\ cb[q].pc = "done"
              /\ cb[q].response = ErrMissingRefreshToken
              /\ cb[q].userInfoCalls = 0
              /\ cb[q].grantCalls = 0
    /\ \A i \in 1 .. Len(grants) : grants[i].props.refreshToken # ""

C10_Witness ==
    \E q \in Callbacks :
        /\ cb[q].response = ErrMissingRefreshToken
        /\ cb[q].tokens # None
        /\ Get(cb[q].tokens).refresh_token = None
        /\ cb[q].tokenCalls = 1

----------------------------------------------------------------------------
(* Failures of the refresh exchange, checked under Spec *)

\* the non-2xx answers of the token endpoint
Rejections == {r \in TokenFail : r.status # NetworkFailure}

\* a step in which the exchange of call p is answered and the call ends
RefreshEnds(p) == call[p].pc = "refresh" /\ call'[p].pc = "done"

PairUnchanged(s) ==
    /\ currentAccessToken'[s] = currentAccessToken[s]
    /\ tokenExpiry'[s] = tokenExpiry[s]
    /\ refreshToken'[s] = refreshToken[s]

\* C11: a 400 answer of the token endpoint whose body names invalid_grant
\* fails the call with "Google refresh token is invalid or revoked"; every
\* other non-2xx answer fails it with "Token refresh failed" and the answer's
\* status.  Either way the call ends there: no further exchange, no remote
\* call, and the pair is left as it was.
C11_RevokedOrRefreshFailed ==
    [][\A p \in Procs :
        RefreshEnds(p) =>
            /\ call'[p].refreshCalls = call[p].refreshCalls
            /\ call'[p].apiCalls = call[p].apiCalls
            /\ PairUnchanged(call[p].session)
            /\ \A r \in Rejections :
                  RefreshResponse(p, r) =>
                      call'[p].result =
                          IF r.status = 400 /\ r.body = "invalid_grant"
                          THEN DriveApiError(401, "Google refresh token is invalid or revoked")
                          ELSE DriveApiError(r.status, "Token refresh failed")
      ]_vars

C11_Witness ==
    \E p, q \in Procs :
        /\ call[p].pc = "done" /\ call[q].pc = "done"
        /\ call[p].result = ErrCredentialRevoked
        /\ call[q].result = ErrRefreshFailed(400)
        /\ call[p].refreshCalls = 1 /\ call[q].refreshCalls = 1

\* a step in which getAccessToken(true) of call p is entered after a 401
Forces(p) ==
    call[p].pc = "request" /\ call[p].attempt = 1 /\ call'[p].attempt = 2

\* C12: when getAccessToken has to refresh (the stored token has expired, or
\* the refresh is forced) and the stored refresh token is empty, it fails with
\* "Access token expired and no refresh token available" and sends nothing to
\* the token endpoint.
C12_NoRefreshTokenNoExchange ==
    [][\A p \in Procs :
        LET s == call'[p].session IN
        /\ (Enters(p) /\ now >= tokenExpiry[s] /\ refreshToken[s] = "") =>
              /\ call'[p].pc = "done"
              /\ call'[p].result = DriveApiError(401, "Access token expired and no refresh token available")
              /\ call'[p].refreshCalls = 0
              /\ call'[p].apiCalls = 0
        /\ (Forces(p) /\ refreshToken[s] = "") =>
              /\ call'[p].pc = "done"
              /\ call'[p].result = DriveApiError(401, "Access token expired and no refresh token available")
              /\ call'[p].refreshCalls = call[p].refreshCalls
              /\ call'[p].apiCalls = 1
      ]_vars

C12_Witness ==
    \E p, q \in Procs :
        /\ call[p].result = ErrNoRefreshToken
        /\ call[p].attempt = 2 /\ call[p].refreshCalls = 0
        /\ call[q].result = ErrNoRefreshToken
        /\ call[q].attempt = 1 /\ call[q].entryExpired /\ call[q].refreshCalls = 0

----------------------------------------------------------------------------
(* What a refresh leaves for the next call, checked under Spec *)

\* a step in which the exchange of call p is answered 2xx and stored
RefreshSucceeds(p) == call[p].pc = "refresh" /\ call'[p].pc = "request"

\* the 2xx answers of the token endpoint that carry what call c has taken
AnswersTaken(c) ==
    [status : {200}, body : {""}, access_token : {Some(c.token)},
     expires_in : {Some(e) : e \in ExpiresIn}, refresh_token : {Get(c.data)}]

\* the call of request entered next on session s, up to its first await
NextEntry(s) ==
    BeginGetAccessToken([IdleCall EXCEPT !.session = s, !.attempt = 1], s, FALSE)

\* after the step, a call of request entered on session s attaches token t
\* without an exchange
ReusedNext(s, t) ==
    /\ NextEntry(s)'.pc = "request"
    /\ NextEntry(s)'.token = t
    /\ NextEntry(s)'.refreshCalls = 0

\* C13 as stated: after every successful refresh whose new expiry is later
\* than now, a call of request entered next on the session makes no exchange
\* and attaches the refreshed access token.
C13_EveryRefreshIsReused ==
    [][\A p \in Procs :
        RefreshSucceeds(p) =>
            \A r \in AnswersTaken(call'[p]) :
                (RefreshResponse(p, r) /\ Get(r.expires_in) > SafetyMargin) =>
                    ReusedNext(call[p].session, call'[p].token)
      ]_vars

\* C13 amended: a successful refresh is stored in the session's pair in the
\* step that takes the answer, and nothing the call does afterwards, its
\* return included, changes the pair unless it is another successful refresh;
\* so when the answer's access_token is not empty and its expiry is later
\* than now, a call of request entered next on the session makes no exchange
\* and attaches the refreshed access token.
C13_RefreshVisibleToNextCall ==
    [][\A p \in Procs :
        LET s == call[p].session IN
        /\ RefreshSucceeds(p) =>
              /\ currentAccessToken'[s] = call'[p].token
              /\ \A r \in AnswersTaken(call'[p]) :
                    (/\ RefreshResponse(p, r)
                     /\ Get(r.expires_in) > SafetyMargin
                     /\ Get(r.access_token) # "") =>
                        ReusedNext(s, Get(r.access_token))
        /\ (call[p].pc \in {"request", "done"} /\ call'[p] # call[p]) =>
              PairUnchanged(s)
      ]_vars

C13_Witness ==
    \E p \in Procs :
        /\ call[p].pc = "request"
        /\ call[p].data # None
        /\ call[p].token = "AT2"
        /\ currentAccessToken[call[p].session] = "AT2"
        /\ now < tokenExpiry[call[p].session]
        /\ NextEntry(call[p].session).token = "AT2"
        /\ NextEntry(call[p].session).refreshCalls = 0

----------------------------------------------------------------------------
(* Failures and success of the handshake, checked under AuthSpec *)

\* C14: a non-2xx answer of the token endpoint ends the callback with 502
\* "Google token exchange failed": the token endpoint was called once, the
\* userinfo endpoint and completeAuthorization not at all; no callback calls
\* the token endpoint twice; and the pending state is gone from the store, so
\* a callback that looks the same state up afterwards fails with "Invalid or
\* expired OAuth state".
C14_CodeExchangeFailureIsFatal ==
    \A q \in Callbacks :
        /\ cb[q].tokenCalls <= 1
        /\ cb[q].response = ErrTokenExchangeFailed =>
              /\ cb[q].pc = "done"
              /\ cb[q].response.status = 502
              /\ cb[q].tokenCalls = 1
              /\ cb[q].userInfoCalls = 0
              /\ cb[q].grantCalls = 0
              /\ kv[cb[q].stateKey] = None
              /\ \A q2 \in Callbacks :
                    (cb[q2].pc = "get" /\ cb[q2].stateKey = cb[q].stateKey) =>
                        AfterLookup(cb[q2], KvGet(kv, cb[q2].stateKey, now)).response
                            = ErrInvalidOrExpiredState

C14_Witness ==
    \E q, q2 \in Callbacks :
        /\ cb[q].response = ErrTokenExchangeFailed
        /\ cb[q].tokenCalls = 1
        /\ cb[q2].pc = "get"
        /\ cb[q2].stateKey = cb[q].stateKey

\* C15: a callback that carries an error parameter answers 400 "Google OAuth
\* error" at once: the store is neither read nor written, so the pending
\* state of its state key stays, and neither the token endpoint nor the
\* userinfo endpoint nor completeAuthorization is called.
C15_ProviderErrorTouchesNothing ==
    [][\A q \in Callbacks :
        (cb[q].pc = "idle" /\ cb'[q].pc # "idle" /\ cb'[q].error) =>
            /\ cb'[q].pc = "done"
            /\ cb'[q].response = Response(400, "Google OAuth error")
            /\ cb'[q].stored = None
            /\ NoSideEffects(cb'[q])
            /\ kv' = kv
            /\ grants' = grants
      ]_vars

C15_Witness ==
    \E q \in Callbacks :
        /\ cb[q].pc = "done"
        /\ cb[q].error /\ cb[q].code
        /\ cb[q].response = ErrProviderDenied
        /\ KvGet(kv, cb[q].stateKey, now) # None

\* C16: every entry is put with an expiry 600 s after the put, and a lookup
\* made when the entry has expired ends the callback as a lookup of an
\* unknown state does: 400 "Invalid or expired OAuth state", nothing called,
\* nothing written, no grant.
C16_ExpiredStateFailsClosed ==
    [][/\ \A k \in Keys :
            (kv'[k] # kv[k] /\ kv'[k] # None) => Get(kv'[k]) = now + 600 * 1000
       /\ \A q \in Callbacks :
            (/\ cb[q].pc = "get"
             /\ cb'[q] # cb[q]
             /\ kv[cb[q].stateKey] # None
             /\ now >= Get(kv[cb[q].stateKey])) =>
                /\ cb'[q].pc = "done"
                /\ cb'[q].response = ErrInvalidOrExpiredState
                /\ NoSideEffects(cb'[q])
                /\ grants' = grants
                /\ kv' = kv
      ]_vars

C16_Witness ==
    \E q \in Callbacks :
        /\ cb[q].pc = "done"
        /\ cb[q].response = ErrInvalidOrExpiredState
        /\ cb[q].stateKey \in issued
        /\ kv[cb[q].stateKey] # None
        /\ now >= Get(kv[cb[q].stateKey])

\* C17: a callback that finds its state, is answered access_token AT,
\* refresh_token RT and expires_in E by the token endpoint and id U by the
\* userinfo endpoint calls completeAuthorization exactly once, for the
\* request stored under its state, with userId U and props accessToken AT,
\* refreshToken RT, expiresAt = now + E * 1000, now read when the userinfo
\* answer has arrived; and it called each endpoint once.
C17_GrantCarriesTheAnswer ==
    [][\A q \in Callbacks :
        /\ cb'[q].grantCalls <= 1
        /\ (cb[q].pc = "userinfo" /\ cb'[q].response = Redirected) =>
              LET t == Get(cb[q].tokens)
                  g == grants'[Len(grants')]
              IN  /\ Len(grants') = Len(grants) + 1
                  /\ cb'[q].grantCalls = 1
                  /\ cb'[q].tokenCalls = 1
                  /\ cb'[q].userInfoCalls = 1
                  /\ cb[q].stateKey \in issued
                  /\ g.request = cb[q].stateKey
                  /\ g.props.accessToken = Get(t.access_token)
                  /\ g.props.refreshToken = Get(t.refresh_token)
                  /\ g.props.expiresAt = now + Get(t.expires_in) * 1000
                  /\ \A u \in UserInfoAnswers :
                        CallbackUserInfo(q, u) => g.userId = u.id
      ]_vars

C17_Witness ==
    \E q \in Callbacks :
        /\ cb[q].response = Redirected
        /\ cb[q].grantCalls = 1
        /\ Len(grants) = 1
        /\ grants[1].request = cb[q].stateKey
        /\ grants[1].userId = "u1"
        /\ grants[1].props.accessToken = "AT1"
        /\ grants[1].props.refreshToken = "RT1"
        /\ grants[1].props.expiresAt = now + 3600 * 1000

----------------------------------------------------------------------------
(* Overlapping refreshes, checked under RotSpec *)

\* getAccessToken of call c threw
GetAccessTokenFailed(c) ==
    \/ c.result = ErrNoRefreshToken
    \/ c.result = ErrCredentialRevoked
    \/ \E st \in {400, 500} : c.result = ErrRefreshFailed(st)

\* C18 as stated: with a token endpoint that works and rotates refresh
\* tokens, in every interleaving of two calls on one session getAccessToken
\* never fails, and the token a call attaches is never empty.
C18_EveryCallerGetsAToken ==
    \A p \in Procs :
        /\ ~GetAccessTokenFailed(call[p])
        /\ call[p].pc = "request" => call[p].token # ""

----------------------------------------------------------------------------
(* Network failures and the frame of request, checked under Spec *)

\* the exchanges call c has sent when the getAccessToken of its attempt in
\* hand has sent one
ExchangesByAttempt(c) ==
    IF c.attempt = 1 THEN 1 ELSE IF EntryCurrent(c) THEN 1 ELSE 2

\* C19: a fetch that rejects ends the call with the rejection and nothing is
\* sent after it: a rejected first attempt is not followed by a refresh or a
\* second attempt, a rejected second attempt is the second and last remote
\* call, and a rejected refresh exchange is followed neither by another
\* exchange nor by the remote call it was made for.
C19_NetworkFailureIsNotRetried ==
    \A p \in Procs :
        LET c == call[p] IN
        /\ c.status1 = Some(NetworkFailure) =>
              /\ c.pc = "done" /\ c.result = NetworkError
              /\ c.attempt = 1 /\ c.apiCalls = 1 /\ c.status2 = None
              /\ c.refreshCalls = (IF EntryCurrent(c) THEN 0 ELSE 1)
        /\ c.status2 = Some(NetworkFailure) =>
              /\ c.pc = "done" /\ c.result = NetworkError
              /\ c.apiCalls = 2
              /\ c.refreshCalls = ExchangesByAttempt(c)
        /\ (/\ c.result = NetworkError
            /\ c.status1 # Some(NetworkFailure)
            /\ c.status2 # Some(NetworkFailure)) =>
              /\ c.pc = "done"
              /\ c.apiCalls = c.attempt - 1
              /\ c.refreshCalls = ExchangesByAttempt(c)
              /\ c.attempt = 1 => c.status1 = None
              /\ c.attempt = 2 => c.status2 = None

C19_Witness ==
    \E p, q \in Procs :
        /\ call[p].status1 = Some(NetworkFailure)
        /\ call[p].result = NetworkError
        /\ call[p].apiCalls = 1
        /\ call[q].status1 = None
        /\ call[q].result = NetworkError
        /\ call[q].refreshCalls = 1

\* C20: the stored access token, refresh token and expiry of a session
\* change only in a step in which a refresh exchange of a call on that
\* session is answered 2xx; entering request, a failed exchange, an answer of
\* the remote API, the return and the passing of time leave all three as they
\* were, and no step of request writes the grant props.
C20_OnlyRefreshWritesThePair ==
    [][/\ \A s \in Sessions :
            PairUnchanged(s) \/ \E p \in Procs : RefreshSucceeds(p) /\ call[p].session = s
       /\ props' = props
      ]_vars

C20_Witness ==
    \E p \in Procs :
        /\ call[p].pc = "done"
        /\ call[p].attempt = 2
        /\ call[p].result = ErrRefreshFailed(500)
        /\ currentAccessToken[call[p].session] = "AT1"
        /\ refreshToken[call[p].session] = "RT1"
        /\ tokenExpiry[call[p].session] = TickMs

----------------------------------------------------------------------------
(* The pair is replaced as a whole, checked under Spec *)

\* after the step the pair of session s is the one the 2xx answer r gives to
\* a refresh that completes now: its access token, its expiry, and its
\* refresh token when it carries a truthy one
PairFrom(s, r) ==
    /\ currentAccessToken'[s] = Get(r.access_token)
    /\ tokenExpiry'[s] = now + (Get(r.expires_in) - SafetyMargin) * 1000
    /\ refreshToken'[s] =
          IF r.refresh_token \in {None, Some("")} THEN refreshToken[s]
          ELSE Get(r.refresh_token)

\* C21: a refresh replaces the pair of its session in one step.  In every
\* step, whatever other calls are suspended on the session, the stored access
\* token, expiry and refresh token either all stay as they were or all become
\* the values of one 2xx token answer processed in that step, so that no
\* state shows the new access token next to the old expiry or next to a
\* refresh token the answer has rotated away.
C21_PairReplacedAsAWhole ==
    [][\A s \in Sessions :
          \/ PairUnchanged(s)
          \/ \E p \in Procs :
                /\ RefreshSucceeds(p)
                /\ call[p].session = s
                /\ \E r \in AnswersTaken(call'[p]) : PairFrom(s, r)
      ]_vars

C21_Witness ==
    \E p, q \in Procs :
        /\ p # q
        /\ call[p].pc = "request" /\ call[p].refreshCalls = 1
        /\ call[p].token = "AT2" /\ call[p].data = Some(Some("RT2"))
        /\ call[q].pc = "refresh" /\ call[q].sent = "RT1"
        /\ currentAccessToken["s1"] = "AT2"
        /\ refreshToken["s1"] = "RT2"
        /\ tokenExpiry["s1"] = now + (3600 - SafetyMargin) * 1000

----------------------------------------------------------------------------
(* One pending entry per authorization, checked under AuthSpec *)

\* C23: every call of handleAuthorize creates exactly one pending entry,
\* under a state key that no earlier redirect carried and that has no entry,
\* and puts that same key in its redirect.  No step writes the pending entry
\* of another handshake: an entry changes only when it is created by
\* handleAuthorize or deleted by a callback that carries its key, and what a
\* callback has read from the store is the request stored under its own key.
C23_OneFreshEntryPerAuthorize ==
    [][/\ issued' # issued =>
             \E k \in Keys :
                 /\ k \notin issued /\ kv[k] = None
                 /\ issued' = issued \cup {k}
                 /\ kv'[k] = Some(now + StateTtl * 1000)
                 /\ \A j \in Keys \ {k} : kv'[j] = kv[j]
       /\ \A k \in Keys :
             kv'[k] # kv[k] =>
                 \/ kv[k] = None /\ issued' = issued \cup {k} /\ k \notin issued
                 \/ /\ kv'[k] = None
                    /\ issued' = issued
                    /\ \E q \in Callbacks :
                           /\ cb[q].pc = "delete" /\ cb'[q].pc = "token"
                           /\ cb[q].stateKey = k
                           /\ cb[q].stored = Some(k)
       /\ \A q \in Callbacks :
             cb'[q].stored # None => cb'[q].stored = Some(cb'[q].stateKey)
      ]_vars

C23_Witness ==
    \E q \in Callbacks :
        /\ issued = {1, 2}
        /\ cb[q].pc = "token" /\ cb[q].stateKey = 1 /\ cb[q].stored = Some(1)
        /\ kv[1] = None
        /\ kv[2] # None

----------------------------------------------------------------------------
(* The grant is completed last, checked under AuthSpec *)

\* C25: completeAuthorization is called only in the step in which the
\* userinfo endpoint answers 2xx to a callback that has found its pending
\* state, whose entry is deleted, and whose single code exchange was answered
\* 2xx with a truthy refresh token; the call carries the id of that userinfo
\* answer as userId, and it is the only such call of the callback.
C25_GrantCompletedLast ==
    [][/\ grants' # grants =>
             \E q \in Callbacks :
                 /\ cb[q].pc = "userinfo" /\ cb'[q].pc = "done"
                 /\ cb[q].stored = Some(cb[q].stateKey)
                 /\ kv[cb[q].stateKey] = None
                 /\ cb[q].tokenCalls = 1 /\ cb[q].userInfoCalls = 1
                 /\ cb[q].tokens # None
                 /\ Ok(Get(cb[q].tokens).status)
                 /\ Get(cb[q].tokens).refresh_token \notin {None, Some("")}
                 /\ Len(grants') = Len(grants) + 1
                 /\ SubSeq(grants', 1, Len(grants)) = grants
                 /\ grants'[Len(grants')].request = cb[q].stateKey
                 /\ \A u \in UserInfoAnswers :
                        CallbackUserInfo(q, u) =>
                            Ok(u.status) /\ grants'[Len(grants')].userId = u.id
                 /\ cb[q].grantCalls = 0 /\ cb'[q].grantCalls = 1
                 /\ cb'[q].response = Redirected
       /\ \A q \in Callbacks :
             cb'[q].grantCalls # cb[q].grantCalls =>
                 cb'[q].grantCalls = 0 \/ Len(grants') = Len(grants) + 1
      ]_vars

C25_Witness ==
    \E q \in Callbacks :
        /\ cb[q].pc = "done" /\ cb[q].response = Redirected
        /\ cb[q].grantCalls = 1 /\ cb[q].tokenCalls = 1 /\ cb[q].userInfoCalls = 1
        /\ kv[cb[q].stateKey] = None
        /\ Len(grants) = 1
        /\ grants[1].request = cb[q].stateKey /\ grants[1].userId = "u1"

----------------------------------------------------------------------------
(* Refresh only inside request, checked under Spec *)

\* a step in which call p sends a refresh exchange to the token endpoint
ExchangeStarts(p) ==
    \/ call'[p].pc = "refresh" /\ call[p].pc # "refresh"
    \/ call'[p].refreshCalls > call[p].refreshCalls

\* C24: a refresh exchange is sent only by a call of request, either as it
\* enters and finds the stored token missing or expired, or as its first
\* attempt is answered 401; it is sent in a step of that call, never by the
\* passing of time, and while an exchange is in flight its call of request is
\* in progress on its first or second attempt.
C24_RefreshOnlyInsideRequest ==
    [][\A p \in Procs :
          /\ ExchangeStarts(p) =>
                /\ now' = now
                /\ call'[p].pc = "refresh"
                /\ call'[p].refreshCalls = call[p].refreshCalls + 1
                /\ \/ /\ Enters(p) /\ call'[p].attempt = 1
                      /\ ~(currentAccessToken[call'[p].session] # ""
                           /\ now < tokenExpiry[call'[p].session])
                   \/ /\ Forces(p) /\ call'[p].status1 = Some(401)
                      /\ call'[p].session = call[p].session
          /\ call'[p].pc = "refresh" =>
                /\ call'[p].attempt \in {1, 2}
                /\ call'[p].refreshCalls \in 1 .. call'[p].attempt
      ]_vars

C24_Witness ==
    \E p, q \in Procs :
        /\ p # q
        /\ call[p].pc = "refresh" /\ call[p].attempt = 2
        /\ call[p].status1 = Some(401) /\ ~call[p].entryExpired
        /\ call[q].pc = "refresh" /\ call[q].attempt = 1 /\ call[q].entryExpired

----------------------------------------------------------------------------
(* Pairs are private to their session, checked under TwoSpec *)

\* the session a step of call p belongs to
SessionOf(p) == IF call[p].pc = "idle" THEN call'[p].session ELSE call[p].session

\* the access tokens, and the refresh tokens, of the grant of session s
AccessTokensOf(s) == {GrantTokens[s].access[i] : i \in 1 .. 2}
RefreshTokensOf(s) == {GrantTokens[s].refresh[i] : i \in 1 .. 2}

\* C22: a step of a call of request, be it its entry, the answer to its
\* refresh exchange, the answer of the remote API or its return, leaves the
\* stored access token, refresh token and expiry of every session other than
\* its own as they were; the access token a request carries to the remote
\* API, and the refresh token an exchange carries to the token endpoint, are
\* tokens of the call's own session.
C22_PairsAreSessionPrivate ==
    [][\A p \in Procs :
          /\ call'[p] # call[p] =>
                \A s \in Sessions \ {SessionOf(p)} : PairUnchanged(s)
          /\ call'[p].pc = "request" =>
                call'[p].token \in AccessTokensOf(call'[p].session)
          /\ call'[p].pc = "refresh" =>
                call'[p].sent \in RefreshTokensOf(call'[p].session)
      ]_vars

C22_Witness ==
    /\ call["p1"].pc = "request" /\ call["p1"].refreshCalls = 1
    /\ call["p1"].token = "AT2"
    /\ currentAccessToken["s1"] = "AT2" /\ refreshToken["s1"] = "RT2"
    /\ call["p2"].pc = "request" /\ call["p2"].refreshCalls = 0
    /\ call["p2"].token = "BT1"
    /\ currentAccessToken["s2"] = "BT1" /\ refreshToken["s2"] = "ST1"
    /\ tokenExpiry["s2"] = TickMs

----------------------------------------------------------------------------
(* The refreshed pair and the props, checked under ReinitSpec *)

\* C29 as stated: a DriveClient built again from the props of its session
\* starts from the pair its predecessor held, refreshed or not: the start of
\* the agent leaves the stored access token, refresh token and expiry of the
\* session as they were.
C29_ReinitStartsFromRefreshedPair ==
    [][AgentInit("s1") => PairUnchanged("s1")]_vars

----------------------------------------------------------------------------
(* Refreshing a grant made by handleCallback, checked under RenewSpec *)

\* C30 as stated: when the framework calls tokenExchangeCallback with the
\* refresh_token grant type for a session whose props are those of a grant
\* handleCallback has completed, the call sends its exchange to the token
\* endpoint; it does not throw for want of credentials.
C30_CallbackGrantIsRefreshable ==
    [][\A s \in Sessions :
          /\ ExchangeBegin(s, "refresh_token")
          /\ \E i \in 1 .. Len(grants) : props[s] = grants[i].props
          => exchange'[s].pc = "fetch"
      ]_vars

----------------------------------------------------------------------------
(* Rotation and the refresh race, checked under RaceSpec *)

\* C28 as stated: with an endpoint that rotates the refresh token, whenever
\* no refresh exchange of the session is in flight, the refresh token the
\* session has stored is the one the endpoint issued last.
C28_StoredRefreshTokenIsLatest ==
    (\A p \in Procs : call[p].pc # "refresh")
        => refreshToken["s1"] = IssueOrder[endpoint.issued]

----------------------------------------------------------------------------
(* Guidance by status, checked under FormatSpec *)

\* string m occurs in string t
Contains(t, m) ==
    \E i \in 1 .. Len(t) - Len(m) + 1 : SubSeq(t, i, i + Len(m) - 1) = m

\* text is the pieces before, then string m, then the pieces after
Wraps(text, before, m, after) == text = before \o m \o after

\* C26: for a DriveApiError of any status, formatDriveError returns the
\* authentication-expired guidance for 401, the permission-denied guidance
\* for 403, the not-found guidance for 404, the bad-request prefix for 400,
\* each with the error's message inside, and the message alone for every
\* other status; whatever the status, the text contains the error's message.
C26_GuidanceByStatus ==
    tool.op = "formatted" /\ tool.err.kind = "DriveApiError" =>
        LET st == tool.err.status
            m == tool.err.message
        IN  /\ st = 401 => Wraps(tool.text,
                   <<"Authentication expired. Please check your credentials. (">>, m, <<")">>)
            /\ st = 403 => Wraps(tool.text,
                   <<"Permission denied. You don't have access to this resource. (">>, m, <<")">>)
            /\ st = 404 => Wraps(tool.text,
                   <<"Not found. The file or resource does not exist or you don't have access. (">>,
                   m, <<")">>)
            /\ st = 400 => Wraps(tool.text, <<"Bad request: ">>, m, <<>>)
            /\ st \notin {400, 401, 403, 404} => tool.text = m
            /\ Contains(tool.text, m)

C26_Witness ==
    /\ tool.op = "formatted"
    /\ tool.err.kind = "DriveApiError" /\ tool.err.status = 403
    /\ tool.err.message = <<"File", "not found">>
    /\ Len(tool.text) = 4

----------------------------------------------------------------------------
(* The multipart round trip, checked under MultipartSpec *)

\* the body read back: two parts, the first declaring application/json and
\* holding the JSON text of metadata, the second declaring the caller's
\* content type and holding content
ReadsBack(t) ==
    LET parts == PartsOf(t.body, t.contentType)
    IN  /\ Len(parts) = 2
        /\ HeaderOf(parts[1]) = <<"Content-Type: application/json; charset=UTF-8">>
        /\ JsonParse(PayloadOf(parts[1])) = t.metadata
        /\ HeaderOf(parts[2]) = <<"Content-Type: ", t.mimeType>>
        /\ PayloadOf(parts[2]) = t.content

\* C27 as stated: for every metadata object, content string and content
\* type, the body buildMultipart returns, split at the boundary its content
\* type declares, is two parts that give back the metadata and the content
\* exactly.
C27_MultipartRoundTrips ==
    tool.op = "built" =>
        /\ tool.contentType = <<"multipart/related; boundary=", Boundary>>
        /\ ReadsBack(tool)

\* the round trip of a content none of whose lines begins with "--" and the
\* boundary
RoundTripWithoutDelimiter ==
    tool.op = "built"
    /\ IndexOf(<<CRLF>> \o tool.content, <<CRLF, "--", Boundary>>, 1) = 0
        => ReadsBack(tool)

----------------------------------------------------------------------------
(* The token of the retry, checked under Spec *)

\* C31: the request reissued after a 401 carries the access_token of the
\* answer to its own forced refresh.  In the step in which that answer is
\* processed the call sends its second remote call with the answer's
\* access_token, whatever token the first attempt carried, and until the
\* remote API answers, the token the call carries does not change, whatever
\* other calls store meanwhile.
C31_RetryCarriesRefreshedToken ==
    [][\A p \in Procs :
          /\ RefreshSucceeds(p) /\ call[p].attempt = 2 =>
                /\ call[p].status1 = Some(401)
                /\ call'[p].attempt = 2 /\ call'[p].apiCalls = 2
                /\ \E r \in AnswersTaken(call'[p]) : RefreshResponse(p, r)
          /\ call[p].pc = "request" /\ call'[p].pc = "request" =>
                call'[p].token = call[p].token /\ call'[p].attempt = call[p].attempt
          /\ call'[p].pc = "request" /\ call'[p].attempt = 2 =>
                call'[p].refreshCalls >= 1 /\ call'[p].data # None
      ]_vars

C31_Witness ==
    \E p \in Procs :
        /\ call[p].pc = "request" /\ call[p].attempt = 2
        /\ call[p].status1 = Some(401)
        /\ call[p].token = "AT2"
        /\ ~call[p].entryExpired /\ call[p].refreshCalls = 1
        /\ currentAccessToken["s1"] = "AT1"

----------------------------------------------------------------------------
(* A failed forced refresh, checked under Spec *)

\* the failure getAccessToken throws for the answer r of the token endpoint
RefreshFailure(r) ==
    IF r.status = NetworkFailure THEN NetworkError
    ELSE IF r.status = 400 /\ r.body = "invalid_grant"
    THEN DriveApiError(401, "Google refresh token is invalid or revoked")
    ELSE DriveApiError(r.status, "Token refresh failed")

\* C32: when the refresh forced by a 401 fails, because the client holds no
\* refresh token or because the token endpoint does not answer 2xx, request
\* ends in that step with the failure of the refresh, having made its one
\* remote call and no second one, and the step leaves the stored access
\* token, refresh token and expiry as they were.
C32_FailedForcedRefreshEndsRequest ==
    [][\A p \in Procs :
          LET s == call[p].session IN
          /\ Forces(p) /\ refreshToken[s] = "" =>
                /\ call'[p].pc = "done"
                /\ call'[p].result =
                       DriveApiError(401, "Access token expired and no refresh token available")
                /\ call'[p].apiCalls = 1 /\ call'[p].status2 = None
                /\ PairUnchanged(s)
          /\ call[p].pc = "refresh" /\ call[p].attempt = 2 =>
                \A r \in TokenFail :
                    RefreshResponse(p, r) =>
                        /\ call'[p].pc = "done"
                        /\ call'[p].result = RefreshFailure(r)
                        /\ call'[p].apiCalls = 1 /\ call'[p].status2 = None
                        /\ call'[p].status1 = Some(401)
                        /\ PairUnchanged(s)
      ]_vars

C32_Witness ==
    \E p \in Procs :
        /\ call[p].pc = "done" /\ call[p].attempt = 2
        /\ call[p].status1 = Some(401) /\ call[p].status2 = None
        /\ call[p].apiCalls = 1 /\ call[p].refreshCalls = 1
        /\ call[p].result = ErrCredentialRevoked
        /\ currentAccessToken["s1"] = "AT1" /\ refreshToken["s1"] = "RT1"
        /\ tokenExpiry["s1"] = TickMs

----------------------------------------------------------------------------
(* Termination of request, checked under LiveSpec *)

\* C33: provided every fetch is answered, every call of request ends, in a
\* response or in an error, and at no time has it made more than two remote
\* calls or more than two refresh exchanges, whatever pair the client starts
\* from and whatever the token endpoint and the remote API answer.
C33_RequestTerminates ==
    /\ [](\A p \in Procs :
            /\ call[p].apiCalls <= 2 /\ call[p].refreshCalls <= 2
            /\ call[p].pc = "done" => call[p].result # Pending)
    /\ \A p \in Procs : (call[p].pc # "idle") ~> (call[p].pc = "done")

C33_Witness ==
    \E p \in Procs :
        /\ call[p].pc = "done"
        /\ call[p].apiCalls = 2 /\ call[p].refreshCalls = 2
        /\ call[p].result = ErrRemoteRequestFailed(401)

----------------------------------------------------------------------------
(* The refresh token is never emptied, checked under GrantSpec *)

\* no step empties the refresh token the DriveClient of a session holds
ClientKeepsRefreshToken ==
    [][\A s \in Sessions : refreshToken[s] # "" => refreshToken'[s] # ""]_vars

\* C34 as stated: no step, be it of a call of request, of a refresh by the
\* DriveClient or of a refresh by the framework, successful or failed,
\* empties a refresh token that is not empty, neither the one the DriveClient
\* holds nor the one in the props of the session.
C34_RefreshTokenStaysNonEmpty ==
    [][\A s \in Sessions :
          /\ refreshToken[s] # "" => refreshToken'[s] # ""
          /\ props[s].refreshToken # "" => props'[s].refreshToken # ""
      ]_vars

----------------------------------------------------------------------------
(* The TTL handed to the framework, checked under TtlSpec *)

\* C35 as stated: for every positive expires_in the accessTokenTTL returned
\* is at most expires_in.
C35_TtlWithinLifetime ==
    tool.op = "returned" => tool.accessTokenTTL <= tool.expires_in

\* C35 amended: the accessTokenTTL returned is expires_in - 60 when that is
\* more than 60, and 60 otherwise; it is at most expires_in whenever
\* expires_in is 60 or more, and it is 60, more than expires_in, for every
\* positive expires_in below 60.
C35_TtlWithinLifetimeFrom60 ==
    tool.op = "returned" =>
        LET e == tool.expires_in
            ttl == tool.accessTokenTTL
        IN  /\ e >= 120 => ttl = e - 60
            /\ e < 120 => ttl = 60
            /\ e >= 60 => ttl <= e
            /\ e < 60 => ttl > e

C35_Witness ==
    tool.op = "returned" /\ tool.expires_in = 60 /\ tool.accessTokenTTL = 60

----------------------------------------------------------------------------
(* tokenExchangeCallback acts on refresh_token grants only, checked under
   ExchangeSpec *)

\* the answer r lacks what refreshGoogleAccessToken needs
Unusable(r) ==
    \/ r.status = NetworkFailure \/ r.status < 200 \/ r.status > 299
    \/ r.access_token \in {None, Some("")}
    \/ r.expires_in \in {None, Some(0)}

\* C36: called for a grant type other than refresh_token,
\* tokenExchangeCallback returns undefined at once: it sends nothing to the
\* token endpoint and the props of the grant stay as they are.  An exchange is
\* sent only for a refresh_token grant, and when the fetch fails, or is
\* answered non-2xx, or the answer has no access_token or no expires_in, the
\* callback throws and the props stay as they are; the props change only
\* when the callback returns new props.
C36_OnlyRefreshGrantsAreExchanged ==
    [][\A s \in Sessions :
          /\ \A g \in GrantTypes \ {"refresh_token"} :
                 ExchangeBegin(s, g) =>
                     /\ exchange'[s].pc = "done"
                     /\ exchange'[s].result = "undefined"
                     /\ props' = props
          /\ exchange'[s].pc = "fetch" /\ exchange[s].pc # "fetch" =>
                 ExchangeBegin(s, "refresh_token")
          /\ \A r \in ExchangeAnswers :
                 ExchangeResponse(s, r) /\ Unusable(r) =>
                     /\ exchange'[s].pc = "done"
                     /\ exchange'[s].result = "thrown"
                     /\ props' = props
          /\ props'[s] # props[s] =>
                 exchange[s].pc = "fetch" /\ exchange'[s].result = "props"
      ]_vars

C36_Witness ==
    /\ exchange["s1"].pc = "done"
    /\ exchange["s1"].result = "undefined"
    /\ props["s1"].hasGoogleCredentials
    /\ props["s1"].accessToken = "AT2"

----------------------------------------------------------------------------
(* A refused userinfo fetch, checked under AuthSpec *)

\* the userinfo endpoint answered u, and u is a non-2xx status
RefusedUserInfo(u) == u.status # NetworkFailure /\ ~Ok(u.status)

\* C37: when the userinfo endpoint answers non-2xx after the code exchange
\* succeeded, handleCallback answers 502 "Failed to fetch Google user info"
\* without calling completeAuthorization: no grant is added.  The entry of
\* the state key was deleted before the code exchange and is not put back,
\* an issued key whose entry is gone never gets an entry again, and a
\* callback that looks the key up after the 502 is answered 400 "Invalid or
\* expired OAuth state".
C37_RefusedUserInfoLeavesStateConsumed ==
    [][\A q \in Callbacks :
          /\ \A u \in UserInfoAnswers :
                 CallbackUserInfo(q, u) /\ RefusedUserInfo(u) =>
                     /\ cb[q].tokens # None /\ Ok(Get(cb[q].tokens).status)
                     /\ cb'[q].pc = "done"
                     /\ cb'[q].response = ErrUserInfoFailed
                     /\ cb'[q].grantCalls = 0
                     /\ grants' = grants
                     /\ kv' = kv
                     /\ kv[cb[q].stateKey] = None
          /\ \A k \in issued : kv[k] = None => kv'[k] = None
          /\ /\ cb[q].pc = "get" /\ cb'[q].pc # "get"
             /\ \E q2 \in Callbacks :
                    /\ cb[q2].response = ErrUserInfoFailed
                    /\ cb[q2].stateKey = cb[q].stateKey
             => /\ cb'[q].pc = "done"
                /\ cb'[q].response = ErrInvalidOrExpiredState
      ]_vars

C37_Witness ==
    /\ cb["c1"].pc = "done" /\ cb["c1"].response = ErrUserInfoFailed
    /\ cb["c2"].pc = "done" /\ cb["c2"].response = ErrInvalidOrExpiredState
    /\ cb["c2"].stateKey = cb["c1"].stateKey
    /\ kv[cb["c1"].stateKey] = None
    /\ grants = <<>>

----------------------------------------------------------------------------
(* Failures inside the tool handlers, checked under ToolSpec *)

\* C38: in every file, search and sheet tool handler, a client call that
\* fails ends the handler with an error response: isError is true and the
\* text is the handler's prefix followed by formatDriveError of what was
\* thrown, so it contains that rendering.  The handler makes no further
\* client call, returns no success response for the failure, and throws
\* nothing itself.
C38_FailureBecomesErrorResponse ==
    tool.op = "handler" =>
        /\ tool.pc \in {"called", "await", "done"}
        /\ tool.err # None =>
               /\ tool.pc = "done"
               /\ tool.response.isError
               /\ Contains(tool.response.text, formatDriveError(Get(tool.err)))
               /\ tool.response.text =
                      <<FailurePrefix[tool.name]>> \o formatDriveError(Get(tool.err))
               /\ Len(tool.calls) \in 1 .. Len(ClientCalls[tool.name])
        /\ tool.pc = "done" /\ ~tool.response.isError =>
               tool.err = None /\ tool.calls = ClientCalls[tool.name]

C38_Witness ==
    /\ tool.op = "handler" /\ tool.name = "gdrive_move_file"
    /\ tool.pc = "done" /\ Len(tool.calls) = 2
    /\ tool.err = Some([kind |-> "DriveApiError", status |-> 404,
                        message |-> <<"File", "not found">>])
    /\ tool.response.isError
    /\ Len(tool.response.text) = 5

----------------------------------------------------------------------------
(* gdrive_export_file, checked under ToolSpec *)

\* format, whatever its case, is one of the export formats listed for mime
Supported(mime, format) ==
    /\ mime \in DOMAIN EXPORT_FORMATS
    /\ \E i \in 1 .. Len(EXPORT_FORMATS[mime]) :
           EXPORT_FORMATS[mime][i][1] = toLowerCase(format)

Exported(t) == \E i \in 1 .. Len(t.calls) : t.calls[i] = "files.export"

\* C39 as stated: gdrive_export_file makes the export call only after the
\* metadata call, and only when the metadata answer carried a Google
\* Workspace mime type for which the requested format, whatever its case, is
\* supported; in every other case it ends with an error response and has
\* made no export call.
C39_ExportOnlyWhenSupported ==
    tool.op = "handler" /\ tool.name = "gdrive_export_file" =>
        /\ Exported(tool) =>
               /\ tool.calls = <<"files.get", "files.export">>
               /\ Supported(tool.mimeType, tool.format)
        /\ tool.pc = "done" /\ ~Supported(tool.mimeType, tool.format) =>
               tool.response.isError /\ ~Exported(tool)

\* what holds of the export call: it follows the metadata call, the mime
\* type is a Google Workspace one, and the format in lower case is a listed
\* one or the name of a property of Object.prototype
ExportFollowsMetadata ==
    tool.op = "handler" /\ Exported(tool) =>
        /\ tool.name = "gdrive_export_file"
        /\ tool.calls = <<"files.get", "files.export">>
        /\ tool.mimeType \in DOMAIN EXPORT_FORMATS
        /\ \/ Supported(tool.mimeType, tool.format)
           \/ toLowerCase(tool.format) \in ObjectPrototype

====
